---- MODULE Spec2Model ----
(***************************************************************************)
(* Persistent memory and analysis cache of the Sarek terminal assistant:   *)
(* the SQLite tables conversations, sessions, achievements and             *)
(* code_analysis, and the operations of EnhancedMemoryDB and               *)
(* AdvancedCodeAnalyzer that read and write them.                          *)
(***************************************************************************)
EXTENDS Integers, Sequences, FiniteSets, TLC

(***************************************************************************)
(* Bounds of the model.                                                    *)
(***************************************************************************)
MaxClock == 3
MaxConvs == 3
MaxLimit == 2
MaxSearchConvs == 2
MaxTarget == 2
MaxAnalyses == 4
NumAnalyzers == 2
MaxConcAnalyses == 2
MaxCalls == 4
NumProcs == 3

(***************************************************************************)
(* Program constants.                                                      *)
(***************************************************************************)
SearchLimit == 20
NULL_TIME == 0

DEFAULT_MODEL == "mistral"
DEFAULT_MOOD == "neutral"
NULL == "NULL"

VARIABLES
    clock,          \* CURRENT_TIMESTAMP of the store, one-second resolution
    conversations,  \* table conversations: set of rows
    conv_seq,       \* sqlite_sequence entry of conversations (AUTOINCREMENT)
    sessions,       \* table sessions: set of rows
    achievements,   \* table achievements: set of rows
    notified,       \* console: "Achievement Unlocked" lines printed, per name
    ret,            \* what the last operation returned to its caller
    appends,        \* number of completed save_conversation calls
    calls,          \* completed increment_achievement calls, per name
    asked,          \* the targets increment_achievement was called with, per name
    pc,             \* concurrent callers of increment_achievement: position
    req,            \* ... the (name, target) of the call
    txn,            \* ... the tables as the open transaction sees them
    db_lock,        \* the process holding SQLite's write lock, or NoProc
    files,          \* the file system: path -> bytes, Missing or Unreadable
    code_analysis,  \* table code_analysis: set of rows
    ca_seq,         \* sqlite_sequence entry of code_analysis (AUTOINCREMENT)
    ares,           \* what the last analyze_file_with_progress returned
    analyses,       \* number of analyze_file_with_progress calls made
    recomputed,     \* number of runs of analyze_python_file / analyze_generic_file
    fresh,          \* per path: the analysis a miss returned and wrote back,
                    \* while the file's bytes are unchanged since
    apc,            \* concurrent callers of analyze_file_with_progress: position
    apath,          \* ... file_path
    ahash,          \* ... file_hash
    aresult,        \* ... analysis
    last_store,     \* per path: digest and analysis_data of the latest store
    ai,             \* the AI queries processed: requests sent, the last outcome
    writer,         \* a process inside a write transaction, which may crash
    batch,          \* a directory analysis in progress
    given,          \* the text handed to the analysis of one file
    cli             \* the command lines run: how many, the last one and its handler

convVars == <<conversations, conv_seq, sessions, ret, appends>>
achVars == <<achievements, notified>>
achHist == <<calls, asked>>
procVars == <<pc, req, txn, db_lock>>
cacheVars == <<files, code_analysis, ca_seq, ares, analyses, recomputed, fresh>>
analyzerVars == <<apc, apath, ahash, aresult, last_store>>
cliVars == <<ai, writer, batch, given, cli>>
vars == <<clock, convVars, achVars, achHist, procVars, cacheVars, analyzerVars, cliVars>>

(***************************************************************************)
(* Inputs.                                                                 *)
(***************************************************************************)
SessionNames == {"work", "home"}
\* texts are tuples of characters, so that LIKE can look inside them
\* exchanges <<user_input, ai_response>>
Exchanges == {<< <<"a">>, <<"c">> >>, << <<"B", "c">>, <<"D">> >>}
Queries == {<<"a">>, <<"b", "_">>, <<"d">>}
\* None and the empty string both fail the test `if session_name:`
NoSession == ""
SessionFilters == SessionNames \cup {NoSession}
Limits == (-1)..MaxLimit

(***************************************************************************)
(* Sequences.                                                              *)
(***************************************************************************)
Min(a, b) == IF a <= b THEN a ELSE b
Max(a, b) == IF a >= b THEN a ELSE b

Reversed(s) == [i \in 1..Len(s) |-> s[Len(s) + 1 - i]]

Range(s) == {s[i] : i \in 1..Len(s)}

\* SQL LIMIT n: a negative n is no limit
SqlLimit(s, n) == IF n < 0 THEN s ELSE SubSeq(s, 1, Min(n, Len(s)))

\* ORDER BY timestamp DESC: every order of the rows in which timestamps do not
\* increase; the order among equal timestamps is not defined by SQL
RECURSIVE OrderByTimestampDesc(_)
OrderByTimestampDesc(rows) ==
    IF rows = {} THEN {<<>>}
    ELSE UNION {{<<r>> \o t : t \in OrderByTimestampDesc(rows \ {r})} :
                r \in {x \in rows : \A y \in rows : x.timestamp >= y.timestamp}}

(***************************************************************************)
(* SQLite LIKE on ASCII text: case-insensitive, % matches any run of       *)
(* characters, _ any one character.                                        *)
(***************************************************************************)
Lower(c) == CASE c = "A" -> "a" [] c = "B" -> "b" [] c = "C" -> "c" [] c = "D" -> "d"
              [] OTHER -> c

RECURSIVE Like(_, _)
Like(pat, s) ==
    IF pat = <<>> THEN s = <<>>
    ELSE IF Head(pat) = "%"
         THEN \E k \in 0..Len(s) : Like(Tail(pat), SubSeq(s, k + 1, Len(s)))
    ELSE IF s = <<>> THEN FALSE
    ELSE /\ (Head(pat) = "_" \/ Lower(Head(pat)) = Lower(Head(s)))
         /\ Like(Tail(pat), Tail(s))

\* f"%{query}%"
LikeParam(query) == <<"%">> \o query \o <<"%">>

(***************************************************************************)
(* Table achievements and increment_achievement.                           *)
(***************************************************************************)
\* update_achievements: action type -> (achievement name, target) pairs
achievements_to_check ==
    [conversation  |-> << <<"chat_master", 100>>, <<"session_expert", 10>> >>,
     code_analysis |-> << <<"code_analyzer", 50>>, <<"quality_guru", 25>> >>,
     git_usage     |-> << <<"git_ninja", 25>>, <<"commit_master", 50>> >>,
     learning      |-> << <<"knowledge_seeker", 20>>, <<"concept_master", 100>> >>]

ActionTypes == DOMAIN achievements_to_check

AchievementNames ==
    UNION {{achievements_to_check[a][i][1] : i \in 1..Len(achievements_to_check[a])} :
           a \in ActionTypes}

\* INSERT OR REPLACE: the row of that name starts again with the new target
InsertOrReplaceAchievement(tbl, name, target) ==
    {r \in tbl : r.name # name}
        \cup {[name |-> name, description |-> "Achievement: " \o name,
                unlocked |-> FALSE, progress |-> 0, target |-> target,
                unlocked_at |-> NULL_TIME]}

\* INSERT OR IGNORE INTO achievements (name, target, description)
InsertOrIgnoreAchievement(tbl, name, target) ==
    IF \E r \in tbl : r.name = name THEN tbl
    ELSE tbl \cup {[name |-> name, description |-> "Achievement: " \o name,
                    unlocked |-> FALSE, progress |-> 0, target |-> target,
                    unlocked_at |-> NULL_TIME]}

\* the UPDATE without AND unlocked = FALSE
UpdateProgressAlways(tbl, name) ==
    {IF r.name = name THEN [r EXCEPT !.progress = @ + 1] ELSE r : r \in tbl}

\* UPDATE achievements SET progress = progress + 1 WHERE name = ? AND unlocked = FALSE
UpdateProgress(tbl, name) ==
    {IF r.name = name /\ r.unlocked = FALSE THEN [r EXCEPT !.progress = @ + 1] ELSE r :
     r \in tbl}

\* the SELECT without AND unlocked = FALSE
SelectUnlockableAgain(tbl, name) ==
    {r \in tbl : r.name = name /\ r.progress >= r.target}

\* SELECT progress ... WHERE name = ? AND progress >= target AND unlocked = FALSE
SelectUnlockable(tbl, name) ==
    {r \in tbl : r.name = name /\ r.progress >= r.target /\ r.unlocked = FALSE}

\* UPDATE achievements SET unlocked = TRUE, unlocked_at = CURRENT_TIMESTAMP WHERE name = ?
UpdateUnlock(tbl, name, now) ==
    {IF r.name = name THEN [r EXCEPT !.unlocked = TRUE, !.unlocked_at = now] ELSE r :
     r \in tbl}

\* the whole transaction of increment_achievement on st = [ach: table, out: console]
increment_achievement(st, name, target, now) ==
    LET t1 == InsertOrIgnoreAchievement(st.ach, name, target)
        t2 == UpdateProgress(t1, name)
    IN  IF SelectUnlockable(t2, name) # {}
        THEN [ach |-> UpdateUnlock(t2, name, now),
              out |-> [st.out EXCEPT ![name] = @ + 1]]
        ELSE [ach |-> t2, out |-> st.out]

RECURSIVE IncrementEach(_, _, _)
IncrementEach(st, pairs, now) ==
    IF pairs = <<>> THEN st
    ELSE IncrementEach(increment_achievement(st, Head(pairs)[1], Head(pairs)[2], now),
                       Tail(pairs), now)

\* the loop left after its first pair
update_achievements_first_pair(st, action_type, now) ==
    IF action_type \in DOMAIN achievements_to_check
    THEN IncrementEach(st, <<Head(achievements_to_check[action_type])>>, now)
    ELSE st

update_achievements(st, action_type, now) ==
    IF action_type \in DOMAIN achievements_to_check
    THEN IncrementEach(st, achievements_to_check[action_type], now)
    ELSE st

\* the increment_achievement calls one update_achievements makes
PairsOf(action_type) ==
    IF action_type \in DOMAIN achievements_to_check
    THEN achievements_to_check[action_type] ELSE <<>>

\* history: calls completed and targets asked, after the calls `pairs`
CountCalls(c, pairs) ==
    [n \in AchievementNames |->
        c[n] + Cardinality({i \in 1..Len(pairs) : pairs[i][1] = n})]

NoteAsked(a, pairs) ==
    [n \in AchievementNames |->
        a[n] \cup {pairs[i][2] : i \in {j \in 1..Len(pairs) : pairs[j][1] = n}}]

(***************************************************************************)
(* Tables conversations and sessions.                                      *)
(***************************************************************************)
MaxOf(S) == IF S = {} THEN 0 ELSE CHOOSE m \in S : \A x \in S : x <= m

\* INTEGER PRIMARY KEY AUTOINCREMENT: one more than the largest id ever used
NextConversationId == MaxOf({conv_seq} \cup {r.id : r \in conversations}) + 1

\* INSERT INTO conversations (session_name, user_input, ai_response, context_used, model_used)
InsertConversation(tbl, id, session_name, user_input, ai_response, context, model, now) ==
    tbl \cup {[id |-> id, session_name |-> session_name, timestamp |-> now,
               user_input |-> user_input, ai_response |-> ai_response,
               context_used |-> context, model_used |-> model]}

\* INSERT OR IGNORE in place of INSERT OR REPLACE: an existing row is kept as it is
InsertOrIgnoreSession(tbl, name, now) ==
    IF \E r \in tbl : r.name = name THEN tbl
    ELSE tbl \cup {[name |-> name, created_at |-> now, last_used |-> now,
                    description |-> NULL, mood |-> DEFAULT_MOOD]}

\* INSERT OR REPLACE INTO sessions (name, last_used) VALUES (?, CURRENT_TIMESTAMP):
\* the row of that name is deleted, the new row takes the column defaults
InsertOrReplaceSession(tbl, name, now) ==
    {r \in tbl : r.name # name}
        \cup {[name |-> name, created_at |-> now, last_used |-> now,
               description |-> NULL, mood |-> DEFAULT_MOOD]}

\* a fetched row as a Conversation object
RowToConversation(row) ==
    [id |-> row.id, session_name |-> row.session_name, timestamp |-> row.timestamp,
     user_input |-> row.user_input, ai_response |-> row.ai_response,
     context_used |-> row.context_used,
     model_used |-> IF row.model_used # "" THEN row.model_used ELSE DEFAULT_MODEL]

Fetch(ordered) == [i \in 1..Len(ordered) |-> RowToConversation(ordered[i])]

\* get_recent_context returning the rows as fetched, newest first
RecentContextNotReversed(session_name, limit) ==
    {Fetch(SqlLimit(o, limit)) :
     o \in OrderByTimestampDesc({r \in conversations : r.session_name = session_name})}

\* get_recent_context without its WHERE session_name = ?
RecentContextAnySession(session_name, limit) ==
    {Reversed(Fetch(SqlLimit(o, limit))) : o \in OrderByTimestampDesc(conversations)}

\* SELECT ... WHERE session_name = ? ORDER BY timestamp DESC LIMIT ?, then reversed
RecentContext(session_name, limit) ==
    {Reversed(Fetch(SqlLimit(o, limit))) :
     o \in OrderByTimestampDesc({r \in conversations : r.session_name = session_name})}

\* search_conversations that never appends AND session_name = ?
SearchMatchesUnscoped(query, session_name) ==
    {r \in conversations :
        Like(LikeParam(query), r.user_input) \/ Like(LikeParam(query), r.ai_response)}

\* WHERE (user_input LIKE ? OR ai_response LIKE ?) [AND session_name = ?]
SearchMatches(query, session_name) ==
    {r \in conversations :
        /\ Like(LikeParam(query), r.user_input) \/ Like(LikeParam(query), r.ai_response)
        /\ session_name # NoSession => r.session_name = session_name}

\* ... ORDER BY timestamp DESC LIMIT 20
SearchResults(query, session_name) ==
    {Fetch(SqlLimit(o, SearchLimit)) :
     o \in OrderByTimestampDesc(SearchMatches(query, session_name))}

Procs == 1..NumProcs
NoProc == 0
NoRequest == [name |-> "", target |-> 0]

NoReturn == [op |-> "none", session_name |-> NoSession, limit |-> 0, query |-> <<>>,
             rows |-> <<>>, action_type |-> ""]

(***************************************************************************)
(* Operations of the conversation store.                                   *)
(***************************************************************************)
Tick ==
    /\ clock < MaxClock
    /\ clock' = clock + 1
    /\ UNCHANGED <<convVars, achVars, achHist, procVars, cacheVars, analyzerVars, cliVars>>

\* the clock may pass a second boundary between the two INSERTs
save_conversation(session_name, user_input, ai_response, context, model) ==
    /\ \E dt \in {0, 1} :
        LET id == NextConversationId
            now2 == clock + dt
            st == update_achievements([ach |-> achievements, out |-> notified],
                                      "conversation", now2)
        IN  /\ now2 <= MaxClock
            /\ conversations' = InsertConversation(conversations, id, session_name,
                                    user_input, ai_response, context, model, clock)
            /\ conv_seq' = id
            /\ sessions' = InsertOrReplaceSession(sessions, session_name, now2)
            /\ clock' = now2
            /\ achievements' = st.ach
            /\ notified' = st.out
    /\ appends' = appends + 1
    /\ ret' = [NoReturn EXCEPT !.op = "save_conversation", !.session_name = session_name]
    /\ calls' = CountCalls(calls, PairsOf("conversation"))
    /\ asked' = NoteAsked(asked, PairsOf("conversation"))
    /\ UNCHANGED <<procVars, cacheVars, analyzerVars, writer, batch, given>>

get_recent_context(session_name, limit) ==
    /\ \E rows \in RecentContext(session_name, limit) :
        ret' = [NoReturn EXCEPT !.op = "get_recent_context",
                                !.session_name = session_name, !.limit = limit,
                                !.rows = rows]
    /\ UNCHANGED <<clock, conversations, conv_seq, sessions, appends, achVars, achHist, procVars, cacheVars, analyzerVars, cliVars>>

search_conversations(query, session_name) ==
    /\ \E rows \in SearchResults(query, session_name) :
        ret' = [NoReturn EXCEPT !.op = "search_conversations",
                                !.session_name = session_name, !.query = query,
                                !.rows = rows]
    /\ UNCHANGED <<clock, conversations, conv_seq, sessions, appends, achVars, achHist, procVars, cacheVars, analyzerVars, cliVars>>

\* appends to the sessions, the texts do not matter to the context window
SaveConversation ==
    /\ appends < MaxConvs
    /\ \E s \in SessionNames :
        save_conversation(s, <<"a">>, <<"c">>, "", DEFAULT_MODEL)
    /\ UNCHANGED <<ai, cli>>

\* appends of texts to search in
SaveText ==
    /\ appends < MaxSearchConvs
    /\ \E s \in SessionNames, e \in Exchanges :
        save_conversation(s, e[1], e[2], "", DEFAULT_MODEL)
    /\ UNCHANGED <<ai, cli>>

GetRecentContext ==
    \E s \in SessionNames, n \in Limits : get_recent_context(s, n)

SearchConversations ==
    \E q \in Queries, s \in SessionFilters : search_conversations(q, s)

(***************************************************************************)
(* Files, their digest and their analysis.                                 *)
(***************************************************************************)
\* a file's text is a tuple of lines; these are the lines the model writes
Contents == {<<>>, <<"# TODO", "x = 1">>}
Missing == <<"<no such file>">>
Unreadable == <<"<permission denied>">>
FileStates == Contents \cup {Missing, Unreadable}

Paths == {"a.py", "b.js"}

Suffix(file_path) == CASE file_path = "a.py" -> ".py" [] file_path = "b.js" -> ".js"
                       [] file_path = "c.php" -> ".php" [] file_path = "d.txt" -> ".txt"
                       [] OTHER -> ""

SUPPORTED_EXTENSIONS ==
    (".py" :> "python") @@ (".js" :> "javascript") @@ (".jsx" :> "javascript") @@
    (".ts" :> "typescript") @@ (".tsx" :> "typescript") @@ (".php" :> "php") @@
    (".java" :> "java") @@ (".cpp" :> "cpp") @@ (".c" :> "c") @@ (".go" :> "go") @@
    (".rs" :> "rust") @@ (".rb" :> "ruby") @@ (".sh" :> "bash") @@ (".sql" :> "sql")

\* self.supported_extensions.get(ext, 'unknown')
LanguageOf(file_path) ==
    IF Suffix(file_path) \in DOMAIN SUPPORTED_EXTENSIONS
    THEN SUPPORTED_EXTENSIONS[Suffix(file_path)] ELSE "unknown"

\* hashlib.md5(f.read()).hexdigest(): a digest of the bytes, "" when open fails
NoHash == <<>>
Md5(bytes) == <<"md5", bytes>>
get_file_hash(f) == IF f \in {Missing, Unreadable} THEN NoHash ELSE Md5(f)

IsBlank(line) == line = ""
IsComment(line) == line = "# TODO"
IsInvalid(line) == line \in {"def (", "$_GET['q']", "function g() {}"}
HasTodo(line) == line = "# TODO"

\* lines that are neither blank nor a comment; lines that are not blank
CodeLines(content) ==
    {i \in 1..Len(content) : ~IsBlank(content[i]) /\ ~IsComment(content[i])}
NonBlankLines(content) == {i \in 1..Len(content) : ~IsBlank(content[i])}

\* a / b of Python on integers, b >= 1: the quotient as a reduced fraction
RECURSIVE Gcd(_, _)
Gcd(a, b) == IF b = 0 THEN a ELSE Gcd(b, a % b)
Quotient(a, b) == <<a \div Gcd(a, b), b \div Gcd(a, b)>>

CodeAnalysis(file_path, language, lines_of_code, issues) ==
    [file_path |-> file_path, language |-> language, lines_of_code |-> lines_of_code,
     complexity_score |-> Quotient(0, 1), functions |-> <<>>, classes |-> <<>>, imports |-> <<>>,
     issues |-> issues, security_issues |-> <<>>]

\* the names ast.walk finds: FunctionDef, ClassDef and Import nodes, in source
\* order for statements at the top level
IsFunctionDef(line) == line \in {"def f(): pass", "def f():", "    def g():"}
FunctionName(line) == IF line = "    def g():" THEN "g" ELSE "f"
IsClassDef(line) == line = "class C: pass"
IsImport(line) == line = "import os"

\* the indentation of a line, and the lines that open a block
Indent(line) ==
    CASE line \in {"    def g():", "    if x: pass", "    for i in x: pass"} -> 4
      [] line = "        if y: pass" -> 8
      [] OTHER -> 0
IsHeader(line) == line \in {"def f():", "    def g():"}
Skipped(line) == IsBlank(line) \/ IsComment(line)

\* the tokenizer's indentation stack: a block opened by a header must be
\* indented more than the header, any other line must be at a level of the
\* stack; depths[i] is the nesting depth of line i
RECURSIVE Walk(_, _, _, _)
Walk(rest, stack, opened, depths) ==
    IF rest = <<>> THEN [ok |-> ~opened, depths |-> depths]
    ELSE LET line == Head(rest)
             w == Indent(line)
             top == stack[Len(stack)]
             keep == Cardinality({j \in 1..Len(stack) : stack[j] <= w})
         IN  IF Skipped(line)
             THEN Walk(Tail(rest), stack, opened, Append(depths, Len(stack) - 1))
             ELSE IF opened
             THEN IF w > top
                  THEN Walk(Tail(rest), Append(stack, w), IsHeader(line),
                            Append(depths, Len(stack)))
                  ELSE [ok |-> FALSE, depths |-> <<>>]
             ELSE IF w > top \/ stack[keep] # w
                  THEN [ok |-> FALSE, depths |-> <<>>]
                  ELSE Walk(Tail(rest), SubSeq(stack, 1, keep), IsHeader(line),
                            Append(depths, keep - 1))
Layout(content) == Walk(content, <<0>>, FALSE, <<>>)

\* ast.parse(content) raises no SyntaxError
Parses(content) ==
    /\ \A i \in 1..Len(content) : ~IsInvalid(content[i])
    /\ Layout(content).ok

\* line i is in the subtree of the function defined at line d
Inside(content, d, i) ==
    /\ d < i
    /\ \A j \in (d + 1)..i :
          Skipped(content[j]) \/ Layout(content).depths[j] > Layout(content).depths[d]

DefLines(content) == {i \in 1..Len(content) : IsFunctionDef(content[i])}

\* ast.If, ast.For, ast.While, ast.Try, ast.With
IsDecisionPoint(line) ==
    line \in {"if x: pass", "    if x: pass", "        if y: pass", "    for i in x: pass"}

\* every decision point counted once, whatever the functions around it
ComplexityFlat(content) ==
    Cardinality({i \in 1..Len(content) :
                    /\ IsDecisionPoint(content[i])
                    /\ \E d \in DefLines(content) : Inside(content, d, i)})

\* complexity += sum(1 for n in ast.walk(node) if isinstance(n, (ast.If, ...)))
\* for each FunctionDef node of ast.walk(tree)
Complexity(content) ==
    Cardinality({p \in DefLines(content) \X (1..Len(content)) :
                    /\ IsDecisionPoint(content[p[2]])
                    /\ Inside(content, p[1], p[2])})

\* ast.walk is breadth-first: the functions of the top level come before the
\* functions defined inside them
RECURSIVE NamesAtDepth(_, _, _)
NamesAtDepth(content, depths, k) ==
    IF content = <<>> THEN <<>>
    ELSE (IF IsFunctionDef(Head(content)) /\ Head(depths) = k
          THEN <<FunctionName(Head(content))>> ELSE <<>>)
             \o NamesAtDepth(Tail(content), Tail(depths), k)
FunctionsOf(content) ==
    NamesAtDepth(content, Layout(content).depths, 0)
        \o NamesAtDepth(content, Layout(content).depths, 1)
ClassesOf(content) ==
    [i \in 1..Len(SelectSeq(content, IsClassDef)) |-> "C"]
ImportsOf(content) ==
    [i \in 1..Len(SelectSeq(content, IsImport)) |-> "os"]

(***************************************************************************)
(* The security scan: re.search(pattern, content, re.IGNORECASE) for each   *)
(* (pattern, warning) of the language's table.  The patterns a line of the  *)
(* model matches are those Python's re finds in it; no pattern of the       *)
(* tables matches across the line ends of these lines.                      *)
(***************************************************************************)
security_patterns ==
    << <<"eval\\s*\\(", "Use of eval() - potential code injection">>,
       <<"exec\\s*\\(", "Use of exec() - potential code execution">>,
       <<"__import__\\s*\\(", "Dynamic imports - review for security">>,
       <<"shell=True", "Shell injection risk in subprocess">>,
       <<"sql.*%.*%", "Potential SQL injection">>,
       <<"pickle\\.loads?\\(", "Pickle usage - ensure trusted data only">> >>

js_security_patterns ==
    << <<"eval\\s*\\(", "Use of eval() - code injection risk">>,
       <<"innerHTML\\s*=", "innerHTML usage - XSS risk">>,
       <<"document\\.write\\s*\\(", "document.write - XSS vulnerability">>,
       <<"\\.html\\s*\\(.*\\$", "Potential XSS in jQuery html()">> >>

php_security_patterns ==
    << <<"\\$_GET\\[", "Direct $_GET usage - validate input">>,
       <<"\\$_POST\\[", "Direct $_POST usage - validate input">>,
       <<"eval\\s*\\(", "Use of eval() - code injection">>,
       <<"exec\\s*\\(", "Use of exec() - command injection">>,
       <<"mysql_query\\s*\\(", "Deprecated mysql_query - use PDO">>,
       <<"md5\\s*\\(.*password", "MD5 for passwords - use stronger hashing">> >>

\* the patterns of the three tables found in a line, ignoring case
MatchedIn(line) ==
    CASE line = "eval(x)" -> {"eval\\s*\\("}
      [] line = "EXEC (c)" -> {"exec\\s*\\("}
      [] line = "el.innerHTML = eval(s)" -> {"eval\\s*\\(", "innerHTML\\s*="}
      [] line = "$_GET['q']" -> {"\\$_GET\\["}
      [] line = "pickle.load(f)" -> {"pickle\\.loads?\\("}
      [] OTHER -> {}

\* re.search(pattern, content, re.IGNORECASE) is not None
Search(pattern, content) ==
    \E i \in 1..Len(content) : pattern \in MatchedIn(content[i])

\* len(re.findall(pattern, content, re.IGNORECASE)) on these lines
CountMatches(pattern, content) ==
    Cardinality({i \in 1..Len(content) : pattern \in MatchedIn(content[i])})

\* a scan that appends the warning once for each match
RECURSIVE ScanEachMatch(_, _)
ScanEachMatch(patterns, content) ==
    IF patterns = <<>> THEN <<>>
    ELSE [i \in 1..CountMatches(Head(patterns)[1], content) |-> Head(patterns)[2]]
             \o ScanEachMatch(Tail(patterns), content)

\* for pattern, warning in patterns: if re.search(...): security_issues.append(warning)
RECURSIVE Scan(_, _)
Scan(patterns, content) ==
    IF patterns = <<>> THEN <<>>
    ELSE (IF Search(Head(patterns)[1], content) THEN <<Head(patterns)[2]>> ELSE <<>>)
             \o Scan(Tail(patterns), content)

\* re.findall(r'function\s+(\w+)', content) on these lines
IsFunctionKeyword(line) == line = "function g() {}"
GenericFunctionsOf(content) ==
    [i \in 1..Len(SelectSeq(content, IsFunctionKeyword)) |-> "g"]

\* analyze_python_file that goes on after a SyntaxError with what is in the text
analyze_python_file_lenient(file_path, f) ==
    IF f \in {Missing, Unreadable}
    THEN CodeAnalysis(file_path, "python", 0, <<"File read error">>)
    ELSE [CodeAnalysis(file_path, "python", Cardinality(CodeLines(f)),
            (IF \E i \in 1..Len(f) : IsInvalid(f[i]) THEN <<"Syntax Error">> ELSE <<>>)
            \o (IF \E i \in 1..Len(f) : HasTodo(f[i])
                THEN <<"Contains TODO/FIXME comments">> ELSE <<>>))
          EXCEPT !.functions = FunctionsOf(f), !.classes = ClassesOf(f),
                 !.imports = ImportsOf(f),
                 !.complexity_score = Quotient(Complexity(f), Max(Len(FunctionsOf(f)), 1)),
                 !.security_issues = Scan(security_patterns, f)]

\* f is what open(file_path) finds when the analysis reads the file
analyze_python_file(file_path, f) ==
    IF f \in {Missing, Unreadable}
    THEN CodeAnalysis(file_path, "python", 0, <<"File read error">>)
    ELSE IF ~Parses(f)
    THEN CodeAnalysis(file_path, "python", Len(f), <<"Syntax Error">>)
    ELSE [CodeAnalysis(file_path, "python", Cardinality(CodeLines(f)),
            IF \E i \in 1..Len(f) : HasTodo(f[i])
            THEN <<"Contains TODO/FIXME comments">> ELSE <<>>)
          EXCEPT !.functions = FunctionsOf(f), !.classes = ClassesOf(f),
                 !.imports = ImportsOf(f),
                 !.complexity_score = Quotient(Complexity(f), Max(Len(FunctionsOf(f)), 1)),
                 !.security_issues = Scan(security_patterns, f)]

analyze_generic_file(file_path, language, f) ==
    IF f \in {Missing, Unreadable}
    THEN CodeAnalysis(file_path, language, 0, <<"File read error">>)
    ELSE [CodeAnalysis(file_path, language, Cardinality(NonBlankLines(f)),
            IF \E i \in 1..Len(f) : HasTodo(f[i])
            THEN <<"Contains TODO/FIXME comments">> ELSE <<>>)
          EXCEPT !.functions = IF language \in {"javascript", "php"}
                               THEN GenericFunctionsOf(f) ELSE <<>>,
                 !.security_issues =
                     CASE language = "javascript" -> Scan(js_security_patterns, f)
                       [] language = "php" -> Scan(php_security_patterns, f)
                       [] OTHER -> <<>>]

\* lines 255-261: the analysis by language
Analyze(file_path, f) ==
    IF LanguageOf(file_path) = "python"
    THEN analyze_python_file(file_path, f)
    ELSE analyze_generic_file(file_path, LanguageOf(file_path), f)

(***************************************************************************)
(* Table code_analysis; analysis_data is the JSON text of the analysis.    *)
(***************************************************************************)
FieldNames == <<"file_path", "language", "lines_of_code", "complexity_score",
                "functions", "classes", "imports", "issues", "security_issues">>

\* json.dumps(analysis.__dict__, default=str): the fields as key/value pairs
JsonDumps(a) ==
    << <<"file_path", a.file_path>>, <<"language", a.language>>,
       <<"lines_of_code", a.lines_of_code>>, <<"complexity_score", a.complexity_score>>,
       <<"functions", a.functions>>, <<"classes", a.classes>>, <<"imports", a.imports>>,
       <<"issues", a.issues>>, <<"security_issues", a.security_issues>> >>

JsonKeys(data) == {data[i][1] : i \in 1..Len(data)}
JsonGet(data, key) == data[CHOOSE i \in 1..Len(data) : data[i][1] = key][2]

\* CodeAnalysis(**json.loads(text)) raises unless the keys are the fields
\* (security_issues has a default)
Decodable(data) ==
    /\ JsonKeys(data) \subseteq Range(FieldNames)
    /\ Range(FieldNames) \ {"security_issues"} \subseteq JsonKeys(data)

JsonLoads(data) ==
    [file_path |-> JsonGet(data, "file_path"), language |-> JsonGet(data, "language"),
     lines_of_code |-> JsonGet(data, "lines_of_code"),
     complexity_score |-> JsonGet(data, "complexity_score"),
     functions |-> JsonGet(data, "functions"), classes |-> JsonGet(data, "classes"),
     imports |-> JsonGet(data, "imports"), issues |-> JsonGet(data, "issues"),
     security_issues |-> IF "security_issues" \in JsonKeys(data)
                         THEN JsonGet(data, "security_issues") ELSE NULL]

\* SELECT analysis_data FROM code_analysis WHERE file_path = ? only
CacheLookupByPath(tbl, file_path, file_hash) ==
    {r \in tbl : r.file_path = file_path}

\* SELECT analysis_data FROM code_analysis WHERE file_path = ? AND file_hash = ?
CacheLookup(tbl, file_path, file_hash) ==
    {r \in tbl : r.file_path = file_path /\ r.file_hash = file_hash}

CacheRow(id, file_path, file_hash, analysis, now) ==
    [id |-> id, file_path |-> file_path, file_hash |-> file_hash,
     language |-> analysis.language, lines_of_code |-> analysis.lines_of_code,
     complexity_score |-> analysis.complexity_score,
     analysis_data |-> JsonDumps(analysis), timestamp |-> now]

\* a plain INSERT into a table without the UNIQUE constraint on file_path
InsertAnalysis(tbl, id, file_path, file_hash, analysis, now) ==
    tbl \cup {CacheRow(id, file_path, file_hash, analysis, now)}

\* INSERT OR IGNORE: the row of an earlier digest stays
InsertOrIgnoreAnalysis(tbl, id, file_path, file_hash, analysis, now) ==
    IF \E r \in tbl : r.file_path = file_path THEN tbl
    ELSE tbl \cup {CacheRow(id, file_path, file_hash, analysis, now)}

\* the row is kept for a commit at the end of the batch: nothing is written yet
InsertAnalysisDeferred(tbl, id, file_path, file_hash, analysis, now) == tbl

\* INSERT OR REPLACE INTO code_analysis ...: file_path is UNIQUE, the row of that
\* path is deleted and the new one inserted
InsertOrReplaceAnalysis(tbl, id, file_path, file_hash, analysis, now) ==
    {r \in tbl : r.file_path # file_path}
        \cup {CacheRow(id, file_path, file_hash, analysis, now)}

NextAnalysisId == MaxOf({ca_seq} \cup {r.id : r \in code_analysis}) + 1

Analyzers == 1..NumAnalyzers
NoStore == [file_hash |-> NoHash, analysis_data |-> <<>>]
NoAnalysis == CodeAnalysis("", "", 0, <<>>)
NoAnalysisReturn == [path |-> "", outcome |-> "none", analysis |-> NoAnalysis,
                     stored |-> FALSE]

\* no AI query has been processed
NoQuery == [queries |-> 0, posts |-> 0, tags |-> 0, outcome |-> "none", response |-> <<>>]
\* no write transaction is open: nothing begun, nothing left to increment
NoWriter == [pc |-> "idle", begun |-> 0, op |-> "none", todo |-> <<>>, txn |-> <<>>]
\* no command line has been run
NoCommand == [runs |-> 0, command_list |-> <<>>, handler |-> "none"]
\* no text has been handed over
NoText == [file_path |-> "", content |-> <<>>]
\* no directory analysis is running
NoBatch == [pc |-> "idle", begun |-> 0, listed |-> {}, todo |-> <<>>, analyses |-> <<>>]

Init ==
    /\ clock = 1
    /\ conversations = {}
    /\ conv_seq = 0
    /\ sessions = {}
    /\ achievements = {}
    /\ notified = [n \in AchievementNames |-> 0]
    /\ ret = NoReturn
    /\ appends = 0
    /\ calls = [n \in AchievementNames |-> 0]
    /\ asked = [n \in AchievementNames |-> {}]
    /\ pc = [p \in Procs |-> "idle"]
    /\ req = [p \in Procs |-> NoRequest]
    /\ txn = [p \in Procs |-> {}]
    /\ db_lock = NoProc
    /\ files = [f \in Paths |-> Missing]
    /\ code_analysis = {}
    /\ ca_seq = 0
    /\ ares = NoAnalysisReturn
    /\ analyses = 0
    /\ recomputed = 0
    /\ fresh = [f \in Paths |-> NoAnalysis]
    /\ apc = [p \in Analyzers |-> "idle"]
    /\ apath = [p \in Analyzers |-> ""]
    /\ ahash = [p \in Analyzers |-> NoHash]
    /\ aresult = [p \in Analyzers |-> NoAnalysis]
    /\ last_store = [f \in Paths |-> NoStore]
    /\ ai = NoQuery
    /\ writer = NoWriter
    /\ batch = NoBatch
    /\ given = NoText
    /\ cli = NoCommand

Next ==
    \/ Tick
    \/ SaveConversation
    \/ GetRecentContext

Spec == Init /\ [][Next]_vars

NextSearch ==
    \/ Tick
    \/ SaveText
    \/ SearchConversations

SpecSearch == Init /\ [][NextSearch]_vars

(***************************************************************************)
(* Properties of the conversation store.                                   *)
(***************************************************************************)
SessionRows(s) == {r \in conversations : r.session_name = s}

\* the conversations of session s were appended at strictly increasing times
StrictTimes(s) ==
    \A a, b \in SessionRows(s) : a.id < b.id => a.timestamp < b.timestamp

\* C4: for conversations appended to one session at strictly increasing times,
\* get_recent_context returns them oldest first; of three conversations and
\* limit 2 it returns the second and the third, in that order.
C4_ContextOrdering ==
    (ret.op = "get_recent_context" /\ StrictTimes(ret.session_name)) =>
        /\ \A i, j \in 1..Len(ret.rows) :
              i < j => /\ ret.rows[i].timestamp < ret.rows[j].timestamp
                       /\ ret.rows[i].id < ret.rows[j].id
        /\ (Cardinality(SessionRows(ret.session_name)) = 3 /\ ret.limit = 2) =>
              /\ Len(ret.rows) = 2
              /\ \E t1 \in SessionRows(ret.session_name) :
                    /\ t1.id < ret.rows[1].id
                    /\ t1.timestamp < ret.rows[1].timestamp

C4_Witness ==
    /\ ret.op = "get_recent_context"
    /\ StrictTimes(ret.session_name)
    /\ Cardinality(SessionRows(ret.session_name)) = 3
    /\ ret.limit = 2
    /\ Len(ret.rows) = 2

\* C8: every save_conversation adds exactly one conversation row, with an id
\* greater than every id that existed, leaves the earlier rows as they were,
\* and leaves exactly one sessions row of that name, whose last_used is the
\* time of the append.
C8_AppendStep ==
    appends' = appends + 1 =>
        \E r \in conversations' :
            /\ r \notin conversations
            /\ conversations' = conversations \cup {r}
            /\ \A o \in conversations : r.id > o.id
            /\ r.session_name = ret'.session_name
            /\ r.timestamp <= clock'
            /\ \E s \in sessions' :
                  /\ s.name = r.session_name
                  /\ s.last_used = clock'
                  /\ \A x \in sessions' : x.name = s.name => x = s

C8_Append == [][C8_AppendStep]_vars

C8_Witness ==
    /\ ret.op = "save_conversation"
    /\ \E a, b \in SessionRows(ret.session_name) : a.id < b.id /\ a.timestamp < b.timestamp
    /\ \E s \in sessions : s.name = ret.session_name /\ s.last_used = clock

\* C9: get_recent_context(session, limit) with limit >= 0 returns exactly
\* min(limit, number of conversations of the session) conversations, each a
\* conversation of that session, none twice, and no conversation of the session
\* that it leaves out is newer than one it returns.
C9_ContextWindow ==
    (ret.op = "get_recent_context" /\ ret.limit >= 0) =>
        LET mine == {RowToConversation(r) : r \in SessionRows(ret.session_name)}
            got == Range(ret.rows)
        IN  /\ Len(ret.rows) = Min(ret.limit, Cardinality(mine))
            /\ Cardinality(got) = Len(ret.rows)
            /\ got \subseteq mine
            /\ \A c \in got : c.session_name = ret.session_name
            /\ \A o \in mine \ got : \A c \in got : o.timestamp <= c.timestamp

C9_Witness ==
    /\ ret.op = "get_recent_context"
    /\ ret.limit = 1
    /\ Len(ret.rows) = 1
    /\ Cardinality(SessionRows(ret.session_name)) = 2
    /\ \E o \in SessionRows(ret.session_name) : o.timestamp < ret.rows[1].timestamp
    /\ \E r \in conversations :
          r.session_name # ret.session_name /\ r.timestamp >= ret.rows[1].timestamp

\* a conversation the query matches: SQLite LIKE on user_input or ai_response
Matches(query, c) ==
    Like(LikeParam(query), c.user_input) \/ Like(LikeParam(query), c.ai_response)

\* C10: search_conversations without a session filter returns the matching
\* conversations of every session; with a session it returns the matching
\* conversations of that session and no other; a query matched only in session
\* "work" is found unfiltered and yields nothing when filtered to "home".
C10_SearchScoping ==
    ret.op = "search_conversations" =>
        LET all == {RowToConversation(r) : r \in conversations}
            wanted == {c \in all : /\ Matches(ret.query, c)
                                   /\ ret.session_name # NoSession =>
                                         c.session_name = ret.session_name}
            onlyWork == /\ \E c \in all : Matches(ret.query, c)
                        /\ \A c \in all : Matches(ret.query, c) => c.session_name = "work"
        IN  /\ Range(ret.rows) \subseteq wanted
            /\ Cardinality(wanted) <= SearchLimit => Range(ret.rows) = wanted
            /\ (onlyWork /\ ret.session_name = NoSession) => ret.rows # <<>>
            /\ (onlyWork /\ ret.session_name = "home") => ret.rows = <<>>

C10_Witness ==
    /\ ret.op = "search_conversations"
    /\ ret.session_name = "home"
    /\ ret.rows = <<>>
    /\ \E r \in conversations : r.session_name = "work" /\ Matches(ret.query, r)
    /\ \E r \in conversations : r.session_name = "home"

(***************************************************************************)
(* The achievement engine, one caller.                                     *)
(***************************************************************************)
\* achievements incremented directly, and the action types given to
\* update_achievements ("voice" is in no table entry)
DirectNames == {"chat_master", "git_ninja"}
GivenActionTypes == ActionTypes \cup {"voice"}

\* every operation on the achievements increments one of these four
TotalCalls == calls["chat_master"] + calls["code_analyzer"] + calls["git_ninja"]
                + calls["knowledge_seeker"]

IncrementAchievement ==
    /\ TotalCalls < MaxCalls
    /\ \E name \in DirectNames, target \in 1..MaxTarget :
        LET st == increment_achievement([ach |-> achievements, out |-> notified],
                                        name, target, clock)
        IN  /\ achievements' = st.ach
            /\ notified' = st.out
            /\ calls' = CountCalls(calls, << <<name, target>> >>)
            /\ asked' = NoteAsked(asked, << <<name, target>> >>)
    /\ UNCHANGED <<clock, convVars, procVars, cacheVars, analyzerVars, cliVars>>

UpdateAchievements ==
    /\ TotalCalls < MaxCalls
    /\ \E action_type \in GivenActionTypes :
        LET st == update_achievements([ach |-> achievements, out |-> notified],
                                      action_type, clock)
        IN  /\ achievements' = st.ach
            /\ notified' = st.out
            /\ calls' = CountCalls(calls, PairsOf(action_type))
            /\ asked' = NoteAsked(asked, PairsOf(action_type))
    /\ UNCHANGED <<clock, convVars, procVars, cacheVars, analyzerVars, cliVars>>

NextAch ==
    \/ Tick
    \/ IncrementAchievement
    \/ UpdateAchievements

SpecAch == Init /\ [][NextAch]_vars

AchRows(n) == {r \in achievements : r.name = n}

\* C5: for a fresh achievement whose calls all give the same target T >= 1, after
\* k calls of increment_achievement the row has progress = min(k, T) and is
\* unlocked exactly when k >= T: calls after the T-th change nothing.
C5_UnlockSequence ==
    \A n \in AchievementNames : \A T \in asked[n] :
        asked[n] = {T} =>
            /\ Cardinality(AchRows(n)) = 1
            /\ \A r \in AchRows(n) :
                  /\ r.target = T
                  /\ r.progress = Min(calls[n], T)
                  /\ r.unlocked = (calls[n] >= T)
                  /\ notified[n] = IF calls[n] >= T THEN 1 ELSE 0

C5_Witness ==
    /\ asked["git_ninja"] = {2}
    /\ calls["git_ninja"] = 3
    /\ \E r \in AchRows("git_ninja") : r.progress = 2 /\ r.unlocked

\* C6: once an achievement is unlocked, no step changes its row: unlocked stays
\* true, progress and unlocked_at keep their values.
C6_FrozenStep ==
    \A r \in achievements : r.unlocked => r \in achievements'

C6_UnlockOneWay == [][C6_FrozenStep]_vars

C6_Witness ==
    \E r \in achievements :
        /\ r.unlocked
        /\ calls[r.name] > r.progress
        /\ r.unlocked_at < clock

(***************************************************************************)
(* increment_achievement called by several processes on one database file. *)
(* Each call is one transaction (with sqlite3.connect(...) as conn): the   *)
(* first statement, a write, takes SQLite's write lock and waits while      *)
(* another transaction holds it; the lock is released at the commit on     *)
(* leaving the with block.                                                 *)
(***************************************************************************)
ConcNames == {"chat_master", "git_ninja"}

\* a write statement starts with no lock held
LockIgnored == TRUE

\* the write lock is free
LockFree == db_lock = NoProc

\* INSERT OR IGNORE: the transaction begins
TxnInsert(p) ==
    /\ pc[p] = "idle"
    /\ LockFree
    /\ \E name \in ConcNames, target \in 1..NumProcs :
        /\ req' = [req EXCEPT ![p] = [name |-> name, target |-> target]]
        /\ txn' = [txn EXCEPT ![p] = InsertOrIgnoreAchievement(achievements, name, target)]
        /\ asked' = NoteAsked(asked, << <<name, target>> >>)
    /\ db_lock' = p
    /\ pc' = [pc EXCEPT ![p] = "update"]
    /\ UNCHANGED <<clock, convVars, achVars, calls, cacheVars, analyzerVars, cliVars>>

TxnUpdate(p) ==
    /\ pc[p] = "update"
    /\ txn' = [txn EXCEPT ![p] = UpdateProgress(txn[p], req[p].name)]
    /\ pc' = [pc EXCEPT ![p] = "select"]
    /\ UNCHANGED <<clock, convVars, achVars, achHist, req, db_lock, cacheVars, analyzerVars, cliVars>>

\* SELECT, and when it returns a row the UPDATE that unlocks and the console line
TxnUnlock(p) ==
    /\ pc[p] = "select"
    /\ IF SelectUnlockable(txn[p], req[p].name) # {}
       THEN /\ txn' = [txn EXCEPT ![p] = UpdateUnlock(txn[p], req[p].name, clock)]
            /\ notified' = [notified EXCEPT ![req[p].name] = @ + 1]
       ELSE UNCHANGED <<txn, notified>>
    /\ pc' = [pc EXCEPT ![p] = "commit"]
    /\ UNCHANGED <<clock, convVars, achievements, achHist, req, db_lock, cacheVars, analyzerVars, cliVars>>

TxnCommit(p) ==
    /\ pc[p] = "commit"
    /\ achievements' = txn[p]
    /\ txn' = [txn EXCEPT ![p] = {}]
    /\ db_lock' = IF db_lock = p THEN NoProc ELSE db_lock
    /\ calls' = CountCalls(calls, << <<req[p].name, req[p].target>> >>)
    /\ pc' = [pc EXCEPT ![p] = "done"]
    /\ UNCHANGED <<clock, convVars, notified, asked, req, cacheVars, analyzerVars, cliVars>>

NextAchConc ==
    \E p \in Procs :
        \/ TxnInsert(p)
        \/ TxnUpdate(p)
        \/ TxnUnlock(p)
        \/ TxnCommit(p)

SpecAchConc == Init /\ [][NextAchConc]_vars

\* C7: when the processes that call increment_achievement on an achievement
\* all give the same target T, under every interleaving the committed progress
\* is min(calls committed, T): no increment is lost and progress never exceeds
\* T; the row is unlocked exactly when T calls have committed, and the unlock
\* line is printed at most once. When all NumProcs processes have called one
\* fresh achievement with target NumProcs it ends with progress = NumProcs,
\* unlocked, and exactly one unlock.
C7_ConcurrentUnlock ==
    \A n \in ConcNames : \A T \in asked[n] :
        asked[n] = {T} =>
            LET done == {p \in Procs : req[p].name = n /\ pc[p] = "done"}
            IN  /\ Cardinality(AchRows(n)) <= 1
                /\ AchRows(n) = {} => done = {}
                /\ \A r \in AchRows(n) :
                      /\ r.progress = Min(Cardinality(done), T)
                      /\ r.progress <= T
                      /\ r.unlocked = (Cardinality(done) >= T)
                      /\ r.unlocked => notified[n] = 1
                /\ notified[n] <= 1
                /\ (done = Procs /\ T = NumProcs) =>
                      /\ notified[n] = 1
                      /\ \E r \in AchRows(n) : r.progress = NumProcs /\ r.unlocked

C7_Witness ==
    \E n \in ConcNames :
        /\ \A p \in Procs : req[p] = [name |-> n, target |-> NumProcs] /\ pc[p] = "done"
        /\ notified[n] = 1
        /\ \E r \in AchRows(n) : r.progress = NumProcs /\ r.unlocked

(***************************************************************************)
(* The analysis cache, one caller.                                         *)
(***************************************************************************)
storeUnchanged == <<clock, convVars, procVars, analyzerVars, ai, writer, given, cli>>

\* the environment rewrites, removes or protects a file
WriteFile ==
    /\ \E file_path \in Paths, f \in FileStates :
        /\ files[file_path] # f
        /\ files' = [files EXCEPT ![file_path] = f]
        /\ fresh' = [fresh EXCEPT ![file_path] = NoAnalysis]
    /\ UNCHANGED <<code_analysis, ca_seq, ares, analyses, recomputed, achVars, achHist,
                   storeUnchanged, batch>>

\* returns None: the path does not exist, or the file cannot be hashed
AnalyzeNone(file_path) ==
    /\ get_file_hash(files[file_path]) = NoHash
    /\ ares' = [NoAnalysisReturn EXCEPT !.path = file_path, !.outcome = "None"]
    /\ UNCHANGED <<code_analysis, ca_seq, recomputed, fresh, achVars, achHist>>

\* a hit that goes on to update_achievements('code_analysis')
AnalyzeHitCounted(file_path) ==
    LET file_hash == get_file_hash(files[file_path])
        cached == CacheLookup(code_analysis, file_path, file_hash)
        st == update_achievements([ach |-> achievements, out |-> notified],
                                  "code_analysis", clock)
    IN  /\ file_hash # NoHash
        /\ \E row \in cached :
            /\ Decodable(row.analysis_data)
            /\ ares' = [path |-> file_path, outcome |-> "hit",
                        analysis |-> JsonLoads(row.analysis_data), stored |-> FALSE]
        /\ achievements' = st.ach
        /\ notified' = st.out
        /\ calls' = CountCalls(calls, PairsOf("code_analysis"))
        /\ asked' = NoteAsked(asked, PairsOf("code_analysis"))
        /\ UNCHANGED <<code_analysis, ca_seq, recomputed, fresh>>

\* the cached row of this path and digest decodes: it is returned
AnalyzeHit(file_path) ==
    LET file_hash == get_file_hash(files[file_path])
        cached == CacheLookup(code_analysis, file_path, file_hash)
    IN  /\ file_hash # NoHash
        /\ \E row \in cached :
            /\ Decodable(row.analysis_data)
            /\ ares' = [path |-> file_path, outcome |-> "hit",
                        analysis |-> JsonLoads(row.analysis_data), stored |-> FALSE]
        /\ UNCHANGED <<code_analysis, ca_seq, recomputed, fresh, achVars, achHist>>

\* no such row: the file is analysed, the result written back (an error of the
\* write is swallowed), update_achievements('code_analysis') called
AnalyzeMiss(file_path) ==
    LET file_hash == get_file_hash(files[file_path])
        cached == CacheLookup(code_analysis, file_path, file_hash)
        analysis == Analyze(file_path, files[file_path])
        st == update_achievements([ach |-> achievements, out |-> notified],
                                  "code_analysis", clock)
    IN  /\ file_hash # NoHash
        /\ \A row \in cached : ~Decodable(row.analysis_data)
        /\ recomputed' = recomputed + 1
        /\ \E store_ok \in BOOLEAN :
            /\ IF store_ok
               THEN /\ code_analysis' = InsertOrReplaceAnalysis(code_analysis,
                                NextAnalysisId, file_path, file_hash, analysis, clock)
                    /\ ca_seq' = NextAnalysisId
                    /\ fresh' = [fresh EXCEPT ![file_path] = analysis]
               ELSE UNCHANGED <<code_analysis, ca_seq, fresh>>
            /\ ares' = [path |-> file_path, outcome |-> "miss", analysis |-> analysis,
                        stored |-> store_ok]
        /\ achievements' = st.ach
        /\ notified' = st.out
        /\ calls' = CountCalls(calls, PairsOf("code_analysis"))
        /\ asked' = NoteAsked(asked, PairsOf("code_analysis"))

analyze_file_with_progress(file_path) ==
    /\ analyses < MaxAnalyses
    /\ analyses' = analyses + 1
    /\ \/ AnalyzeNone(file_path)
       \/ AnalyzeHit(file_path)
       \/ AnalyzeMiss(file_path)
    /\ UNCHANGED <<files, storeUnchanged>>

AnalyzeFile ==
    /\ \E file_path \in Paths : analyze_file_with_progress(file_path)
    /\ UNCHANGED batch

NextCache ==
    \/ WriteFile
    \/ AnalyzeFile

SpecCache == Init /\ [][NextCache]_vars

RowsOf(file_path) == {r \in code_analysis : r.file_path = file_path}

\* C1: once analyze_file_with_progress(path) has completed on a miss and written
\* its result back, every later call for that path made while the file is
\* unchanged is a hit: neither analyze_python_file nor analyze_generic_file runs,
\* the table is not written, and the analysis returned equals, field for field,
\* the one the first call returned.
C1_HitStep ==
    (analyses' = analyses + 1 /\ fresh[ares'.path] # NoAnalysis) =>
        /\ ares'.outcome = "hit"
        /\ ares'.analysis = fresh[ares'.path]
        /\ recomputed' = recomputed
        /\ code_analysis' = code_analysis

C1_CacheHit == [][C1_HitStep]_vars

C1_Witness ==
    /\ ares.outcome = "hit"
    /\ ares.analysis = fresh[ares.path]
    /\ ares.analysis.issues # <<>>
    /\ ares.analysis.lines_of_code > 0

\* C2: a call returns a stored analysis only when the table has a row of the
\* path whose file_hash is the digest of the file's bytes; when the file can be
\* hashed and there is no such row (the path was never stored, or its row holds
\* another digest) the analysis is recomputed from the file's bytes.
C2_LookupStep ==
    analyses' = analyses + 1 =>
        LET f == files[ares'.path]
            valid == {r \in RowsOf(ares'.path) : r.file_hash = get_file_hash(f)}
        IN  /\ ares'.outcome = "hit" =>
                /\ f \in Contents
                /\ \E r \in valid : ares'.analysis = JsonLoads(r.analysis_data)
                /\ recomputed' = recomputed
            /\ (f \in Contents /\ valid = {}) =>
                /\ ares'.outcome = "miss"
                /\ recomputed' = recomputed + 1
                /\ ares'.analysis = Analyze(ares'.path, f)

C2_DigestMismatch == [][C2_LookupStep]_vars

\* a miss on a path whose row holds the digest of other bytes (the write-back of
\* this miss failed, so the row is still there)
C2_Witness ==
    /\ ares.outcome = "miss"
    /\ ~ares.stored
    /\ files[ares.path] \in Contents
    /\ \E r \in RowsOf(ares.path) : r.file_hash # get_file_hash(files[ares.path])
    /\ ares.analysis = Analyze(ares.path, files[ares.path])

(***************************************************************************)
(* analyze_file_with_progress called by several processes, while files are *)
(* rewritten. The SELECT and the INSERT OR REPLACE are one transaction each.*)
(***************************************************************************)
restUnchanged == <<clock, convVars, procVars, ares, recomputed, fresh, cliVars>>

\* while analyses run, another process creates and rewrites the files
ConcFileStates == Contents

WriteFileConc ==
    /\ \E file_path \in Paths, f \in ConcFileStates :
        /\ files[file_path] # f
        /\ files' = [files EXCEPT ![file_path] = f]
    /\ UNCHANGED <<code_analysis, ca_seq, analyses, achVars, achHist, analyzerVars,
                   restUnchanged>>

\* os.path.exists and get_file_hash
StepHash(p) ==
    /\ apc[p] = "idle"
    /\ analyses < MaxConcAnalyses
    /\ analyses' = analyses + 1
    /\ \E file_path \in Paths :
        LET file_hash == get_file_hash(files[file_path])
        IN  IF file_hash = NoHash
            THEN UNCHANGED <<apc, apath, ahash>>
            ELSE /\ apath' = [apath EXCEPT ![p] = file_path]
                 /\ ahash' = [ahash EXCEPT ![p] = file_hash]
                 /\ apc' = [apc EXCEPT ![p] = "lookup"]
    /\ UNCHANGED <<files, code_analysis, ca_seq, achVars, achHist, aresult, last_store,
                   restUnchanged>>

\* the SELECT: a row that decodes is returned, else the analysis goes on
StepLookup(p) ==
    /\ apc[p] = "lookup"
    /\ LET cached == CacheLookup(code_analysis, apath[p], ahash[p])
       IN  IF \E row \in cached : Decodable(row.analysis_data)
           THEN /\ apc' = [apc EXCEPT ![p] = "idle"]
                /\ apath' = [apath EXCEPT ![p] = ""]
                /\ ahash' = [ahash EXCEPT ![p] = NoHash]
           ELSE /\ apc' = [apc EXCEPT ![p] = "analyze"]
                /\ UNCHANGED <<apath, ahash>>
    /\ UNCHANGED <<files, code_analysis, ca_seq, analyses, achVars, achHist, aresult,
                   last_store, restUnchanged>>

\* the file is opened again and read
StepAnalyze(p) ==
    /\ apc[p] = "analyze"
    /\ aresult' = [aresult EXCEPT ![p] = Analyze(apath[p], files[apath[p]])]
    /\ apc' = [apc EXCEPT ![p] = "store"]
    /\ UNCHANGED <<files, code_analysis, ca_seq, analyses, achVars, achHist, apath, ahash,
                   last_store, restUnchanged>>

\* INSERT OR REPLACE; an error is swallowed
StepStore(p) ==
    /\ apc[p] = "store"
    /\ \E store_ok \in BOOLEAN :
        IF store_ok
        THEN /\ code_analysis' = InsertOrReplaceAnalysis(code_analysis, NextAnalysisId,
                                    apath[p], ahash[p], aresult[p], clock)
             /\ ca_seq' = NextAnalysisId
             /\ last_store' = [last_store EXCEPT ![apath[p]] =
                    [file_hash |-> ahash[p], analysis_data |-> JsonDumps(aresult[p])]]
        ELSE UNCHANGED <<code_analysis, ca_seq, last_store>>
    /\ apc' = [apc EXCEPT ![p] = "achieve"]
    /\ aresult' = [aresult EXCEPT ![p] = NoAnalysis]
    /\ UNCHANGED <<files, analyses, achVars, achHist, apath, ahash, restUnchanged>>

\* self.db.update_achievements('code_analysis')
StepAchieve(p) ==
    /\ apc[p] = "achieve"
    /\ LET st == update_achievements([ach |-> achievements, out |-> notified],
                                     "code_analysis", clock)
       IN  /\ achievements' = st.ach
           /\ notified' = st.out
    /\ calls' = CountCalls(calls, PairsOf("code_analysis"))
    /\ asked' = NoteAsked(asked, PairsOf("code_analysis"))
    /\ apc' = [apc EXCEPT ![p] = "idle"]
    /\ apath' = [apath EXCEPT ![p] = ""]
    /\ ahash' = [ahash EXCEPT ![p] = NoHash]
    /\ UNCHANGED <<files, code_analysis, ca_seq, analyses, aresult, last_store,
                   restUnchanged>>

NextCacheConc ==
    \/ WriteFileConc
    \/ \E p \in Analyzers :
        \/ StepHash(p)
        \/ StepLookup(p)
        \/ StepAnalyze(p)
        \/ StepStore(p)
        \/ StepAchieve(p)

SpecCacheConc == Init /\ [][NextCacheConc]_vars

\* C3: under every interleaving of the stores, the table holds at most one row
\* per file_path; a path that was stored has a row, and that row carries the
\* digest and the analysis of the latest store for the path; a path never
\* stored has none.
C3_OneRowPerPath ==
    \A f \in Paths :
        /\ Cardinality(RowsOf(f)) <= 1
        /\ last_store[f] = NoStore => RowsOf(f) = {}
        /\ last_store[f] # NoStore =>
              \E r \in RowsOf(f) :
                  /\ r.file_hash = last_store[f].file_hash
                  /\ r.analysis_data = last_store[f].analysis_data

\* two processes analysed one path under different digests; the second store
\* has replaced the row of the first
C3_Witness ==
    \E p, q \in Analyzers :
        /\ p # q
        /\ apath[p] = apath[q]
        /\ ahash[p] # ahash[q]
        /\ apc[p] = "achieve"
        /\ apc[q] = "achieve"
        /\ \E r \in RowsOf(apath[p]) : r.id = 2 /\ r.file_hash = ahash[p]

(***************************************************************************)
(* The listings get_sessions and get_achievements, with the other queries  *)
(* and save_conversation.                                                  *)
(***************************************************************************)
\* ORDER BY s.last_used ASC
RECURSIVE OrderByLastUsedAsc(_)
OrderByLastUsedAsc(rows) ==
    IF rows = {} THEN {<<>>}
    ELSE UNION {{<<r>> \o t : t \in OrderByLastUsedAsc(rows \ {r})} :
                r \in {x \in rows : \A y \in rows : x.last_used <= y.last_used}}

\* ORDER BY s.last_used DESC: every order in which last_used does not increase
RECURSIVE OrderByLastUsedDesc(_)
OrderByLastUsedDesc(rows) ==
    IF rows = {} THEN {<<>>}
    ELSE UNION {{<<r>> \o t : t \in OrderByLastUsedDesc(rows \ {r})} :
                r \in {x \in rows : \A y \in rows : x.last_used >= y.last_used}}

\* COUNT(c.id) over the LEFT JOIN conversations c ON s.name = c.session_name
\* COUNT(c.id) of a join without its ON condition
MessageCountUnjoined(name) == Cardinality(conversations)

MessageCount(name) == Cardinality({c \in conversations : c.session_name = name})

\* one group per sessions row (name is the primary key), as a dict
SessionEntry(s) ==
    [name |-> s.name, created_at |-> s.created_at, last_used |-> s.last_used,
     description |-> s.description, message_count |-> MessageCount(s.name)]

\* the lists get_sessions may return
SessionList ==
    {[i \in 1..Len(o) |-> SessionEntry(o[i])] : o \in OrderByLastUsedDesc(sessions)}

\* ORDER BY unlocked DESC, progress DESC
RECURSIVE OrderByUnlockedProgressDesc(_)
OrderByUnlockedProgressDesc(rows) ==
    LET Key(r) == <<IF r.unlocked THEN 1 ELSE 0, r.progress>>
        Before(a, b) == a[1] > b[1] \/ (a[1] = b[1] /\ a[2] >= b[2])
    IN  IF rows = {} THEN {<<>>}
        ELSE UNION {{<<r>> \o t : t \in OrderByUnlockedProgressDesc(rows \ {r})} :
                    r \in {x \in rows : \A y \in rows : Before(Key(x), Key(y))}}

\* a fetched row as an Achievement object
RowToAchievement(row) ==
    [name |-> row.name, description |-> row.description, unlocked |-> row.unlocked,
     progress |-> row.progress, target |-> row.target]

\* the lists get_achievements may return
AchievementList ==
    {[i \in 1..Len(o) |-> RowToAchievement(o[i])] :
     o \in OrderByUnlockedProgressDesc(achievements)}

\* get_sessions that also stamps the sessions it lists
get_sessions_touching ==
    /\ \E rows \in SessionList :
        ret' = [NoReturn EXCEPT !.op = "get_sessions", !.rows = rows]
    /\ sessions' = {[s EXCEPT !.last_used = clock] : s \in sessions}
    /\ UNCHANGED <<clock, conversations, conv_seq, appends, achVars, achHist, procVars,
                   cacheVars, analyzerVars, cliVars>>

get_sessions ==
    /\ \E rows \in SessionList :
        ret' = [NoReturn EXCEPT !.op = "get_sessions", !.rows = rows]
    /\ UNCHANGED <<clock, conversations, conv_seq, sessions, appends, achVars, achHist,
                   procVars, cacheVars, analyzerVars, cliVars>>

get_achievements ==
    /\ \E rows \in AchievementList :
        ret' = [NoReturn EXCEPT !.op = "get_achievements", !.rows = rows]
    /\ UNCHANGED <<clock, conversations, conv_seq, sessions, appends, achVars, achHist,
                   procVars, cacheVars, analyzerVars, cliVars>>

NextStore ==
    \/ SaveConversation
    \/ GetRecentContext
    \/ SearchConversations
    \/ get_sessions
    \/ get_achievements

SpecStore == Init /\ [][NextStore]_vars

\* the id of the latest conversation appended to a session
LatestAppend(name) == MaxOf({c.id : c \in {x \in conversations : x.session_name = name}})

\* every session appended to is listed once, and with its number of conversations
ListsEachSessionOnce(rows) ==
    /\ {rows[i].name : i \in 1..Len(rows)} = {c.session_name : c \in conversations}
    /\ \A i, j \in 1..Len(rows) : rows[i].name = rows[j].name => i = j
    /\ \A i \in 1..Len(rows) : rows[i].message_count = MessageCount(rows[i].name)

\* C11 as stated: get_sessions returns one entry per session appended to, with
\* its number of conversations, ordered by last_used descending, the session
\* appended to more recently always before the other.
C11_MostRecentFirst ==
    ret.op = "get_sessions" =>
        /\ ListsEachSessionOnce(ret.rows)
        /\ \A i, j \in 1..Len(ret.rows) :
              i < j => /\ ret.rows[i].last_used >= ret.rows[j].last_used
                       /\ LatestAppend(ret.rows[i].name) > LatestAppend(ret.rows[j].name)

\* C11 amended: get_sessions returns one entry per session appended to, with
\* its number of conversations, ordered by last_used descending; of two sessions
\* with different last_used the one appended to more recently comes first, and
\* sessions last appended to within the same second come in either order.
C11_SessionListing ==
    ret.op = "get_sessions" =>
        /\ ListsEachSessionOnce(ret.rows)
        /\ \A i, j \in 1..Len(ret.rows) :
              i < j => /\ ret.rows[i].last_used >= ret.rows[j].last_used
                       /\ ret.rows[i].last_used # ret.rows[j].last_used =>
                             LatestAppend(ret.rows[i].name) > LatestAppend(ret.rows[j].name)

\* two sessions listed, last used in different seconds, one of them holding two
\* conversations
C11_Witness ==
    /\ ret.op = "get_sessions"
    /\ Len(ret.rows) = 2
    /\ ret.rows[1].last_used > ret.rows[2].last_used
    /\ ret.rows[2].message_count = 2

QueryOps == {"get_recent_context", "search_conversations", "get_sessions",
             "get_achievements"}

\* C12: a step in which one of the four queries returns leaves the tables
\* conversations, sessions, achievements and code_analysis as they were, and a
\* step of the conversation store that changes conversations or sessions is a
\* completed save_conversation.
C12_Step ==
    /\ (ret' # ret /\ ret'.op \in QueryOps) =>
          <<conversations, sessions, achievements, code_analysis>>'
              = <<conversations, sessions, achievements, code_analysis>>
    /\ <<conversations, sessions>>' # <<conversations, sessions>> =>
          ret'.op = "save_conversation" /\ appends' = appends + 1

C12_QueriesReadOnly == [][C12_Step]_vars

\* every table but code_analysis holds rows and get_sessions has listed them
C12_Witness ==
    /\ ret.op = "get_sessions"
    /\ Len(ret.rows) = 2
    /\ achievements # {}
    /\ Cardinality(conversations) = 3

(***************************************************************************)
(* An AI query: _process_query, query_with_context, ask_model.             *)
(***************************************************************************)
MaxQueries == 2
ContextLimit == 3

\* what happens to requests.post(OLLAMA_URL, ...): an answer, or an exception
Outcomes == {"ok", "timeout", "connection", "http404", "http500", "other"}
\* the models get_available_models reports: listed by the backend, or the fallback
ModelLists == {<<"mistral">>, <<"mistral", "codellama", "llama2">>}

\* the texts ask_model returns in its except clauses
ErrorText(outcome, model, models) ==
    CASE outcome = "timeout" -> <<"Request timed out. Model might be processing", model>>
      [] outcome = "connection" -> <<"Cannot connect to Ollama">>
      [] outcome = "http404" -> <<"Model not found. Available models:", model, models>>
      [] outcome = "http500" -> <<"HTTP error:", "500">>
      [] OTHER -> <<"Error querying model", model>>

\* ask_model that posts the request again after a timeout
ask_model_retrying(outcome, model, models) ==
    [response |-> IF outcome = "ok" THEN <<"c">> ELSE ErrorText(outcome, model, models),
     posts |-> IF outcome = "timeout" THEN 2 ELSE 1,
     tags |-> IF outcome = "http404" THEN 1 ELSE 0]

\* ask_model: one requests.post; the answer's text, or the text of the failure.
\* A 404 also asks the backend for its list of models.
ask_model(outcome, model, models) ==
    [response |-> IF outcome = "ok" THEN <<"c">> ELSE ErrorText(outcome, model, models),
     posts |-> 1,
     tags |-> IF outcome = "http404" THEN 1 ELSE 0]

\* build_context_prompt: the context is the text of the recent conversations,
\* "" when there is none
ContextOf(recent) ==
    IF recent = <<>> THEN ""
    ELSE [i \in 1..Len(recent) |-> <<recent[i].user_input, recent[i].ai_response>>]

\* _process_query without --model and --auto-model: the configured model, the
\* context, the request, the append
process_query(user_input, session_name) ==
    \E outcome \in Outcomes, models \in ModelLists :
       \E recent \in RecentContext(session_name, ContextLimit) :
        LET model == DEFAULT_MODEL
            answer == ask_model(outcome, model, models)
        IN  /\ outcome # "http404" => models = <<"mistral">>
            /\ ai' = [queries |-> ai.queries + 1, posts |-> ai.posts + answer.posts,
                      tags |-> ai.tags + answer.tags, outcome |-> outcome,
                      response |-> answer.response]
            /\ save_conversation(session_name, user_input, answer.response,
                                 ContextOf(recent), model)

ProcessQuery ==
    /\ ai.queries < MaxQueries
    /\ \E s \in SessionNames : process_query(<<"a">>, s)
    /\ UNCHANGED cli

NextQuery ==
    \/ Tick
    \/ ProcessQuery

SpecQuery == Init /\ [][NextQuery]_vars

\* the texts ask_model returns for a failed request
ErrorTexts ==
    {ErrorText(o, DEFAULT_MODEL, m) : o \in Outcomes \ {"ok"}, m \in ModelLists}

\* C13: a step that processes one AI query posts the request to the backend
\* exactly once; the step appends exactly one conversation row, whose
\* ai_response is the response, which after a failed request is the text of
\* the failure; every row that existed stays as it was.
C13_Step ==
    ai'.queries = ai.queries + 1 =>
        /\ ai'.posts = ai.posts + 1
        /\ ai'.outcome # "ok" => ai'.response \in ErrorTexts
        /\ conversations \subseteq conversations'
        /\ Cardinality(conversations' \ conversations) = 1
        /\ \A r \in conversations' \ conversations :
              /\ r.ai_response = ai'.response
              /\ r.id \notin {x.id : x \in conversations}

MaxWrites == 3

\* the tables as committed in the database file
Committed ==
    [conversations |-> conversations, conv_seq |-> conv_seq, sessions |-> sessions,
     achievements |-> achievements, code_analysis |-> code_analysis, ca_seq |-> ca_seq]

\* autocommit: every statement is written through as it is executed
AfterKillAutocommit(committed, view) == view

\* what the database file holds after the process is killed inside a transaction
AfterKill(committed, view) == committed

\* the tables take the values of t
Install(t) ==
    /\ conversations' = t.conversations
    /\ conv_seq' = t.conv_seq
    /\ sessions' = t.sessions
    /\ achievements' = t.achievements
    /\ code_analysis' = t.code_analysis
    /\ ca_seq' = t.ca_seq

crashFrame == <<procVars, files, ares, analyses, recomputed, fresh, analyzerVars, ai, batch,
               given, cli>>

\* save_conversation: INSERT INTO conversations
WSaveInsert ==
    /\ writer.pc = "idle"
    /\ writer.begun < MaxWrites
    /\ \E s \in SessionNames :
        writer' = [pc |-> "save_session", begun |-> writer.begun + 1, op |-> s,
                   todo |-> PairsOf("conversation"),
                   txn |-> [Committed EXCEPT
                       !.conversations = InsertConversation(conversations,
                           NextConversationId, s, <<"a">>, <<"c">>, "", DEFAULT_MODEL, clock),
                       !.conv_seq = NextConversationId]]
    /\ UNCHANGED <<clock, convVars, achVars, achHist, code_analysis, ca_seq, crashFrame>>

\* save_conversation: INSERT OR REPLACE INTO sessions
WSaveSession ==
    /\ writer.pc = "save_session"
    /\ writer' = [writer EXCEPT !.pc = "save_commit",
                     !.txn.sessions = InsertOrReplaceSession(sessions, writer.op, clock)]
    /\ UNCHANGED <<clock, convVars, achVars, achHist, code_analysis, ca_seq, crashFrame>>

\* save_conversation: leaving the with block commits; update_achievements follows
WSaveCommit ==
    /\ writer.pc = "save_commit"
    /\ Install(writer.txn)
    /\ writer' = [writer EXCEPT !.pc = "increment", !.txn = <<>>]
    /\ UNCHANGED <<clock, ret, appends, notified, achHist, crashFrame>>

\* increment_achievement called on its own
WIncrement ==
    /\ writer.pc = "idle"
    /\ writer.begun < MaxWrites
    /\ \E name \in DirectNames, target \in 1..MaxTarget :
        writer' = [writer EXCEPT !.pc = "increment", !.begun = @ + 1, !.op = "increment",
                                 !.todo = << <<name, target>> >>]
    /\ UNCHANGED <<clock, convVars, achVars, achHist, code_analysis, ca_seq, crashFrame>>

\* increment_achievement: INSERT OR IGNORE
WIncInsert ==
    /\ writer.pc = "increment"
    /\ writer' = [writer EXCEPT !.pc = "inc_update",
                     !.txn = [Committed EXCEPT !.achievements =
                         InsertOrIgnoreAchievement(achievements, Head(writer.todo)[1],
                                                   Head(writer.todo)[2])]]
    /\ asked' = NoteAsked(asked, <<Head(writer.todo)>>)
    /\ UNCHANGED <<clock, convVars, achVars, calls, code_analysis, ca_seq, crashFrame>>

\* increment_achievement: UPDATE progress
WIncUpdate ==
    /\ writer.pc = "inc_update"
    /\ writer' = [writer EXCEPT !.pc = "inc_select",
                     !.txn.achievements = UpdateProgress(@, Head(writer.todo)[1])]
    /\ UNCHANGED <<clock, convVars, achVars, achHist, code_analysis, ca_seq, crashFrame>>

\* increment_achievement: SELECT, and the UPDATE that unlocks with its console line
WIncUnlock ==
    /\ writer.pc = "inc_select"
    /\ IF SelectUnlockable(writer.txn.achievements, Head(writer.todo)[1]) # {}
       THEN /\ writer' = [writer EXCEPT !.pc = "inc_commit",
                             !.txn.achievements = UpdateUnlock(@, Head(writer.todo)[1], clock)]
            /\ notified' = [notified EXCEPT ![Head(writer.todo)[1]] = @ + 1]
       ELSE /\ writer' = [writer EXCEPT !.pc = "inc_commit"]
            /\ UNCHANGED notified
    /\ UNCHANGED <<clock, convVars, achievements, achHist, code_analysis, ca_seq, crashFrame>>

\* increment_achievement: the commit; the caller goes on with the next pair
WIncCommit ==
    /\ writer.pc = "inc_commit"
    /\ Install(writer.txn)
    /\ calls' = CountCalls(calls, <<Head(writer.todo)>>)
    /\ LET rest == Tail(writer.todo)
       IN  /\ writer' = [writer EXCEPT !.pc = IF rest = <<>> THEN "idle" ELSE "increment",
                                       !.todo = rest, !.txn = <<>>]
           /\ IF rest = <<>> /\ writer.op \in SessionNames
              THEN /\ appends' = appends + 1
                   /\ ret' = [NoReturn EXCEPT !.op = "save_conversation",
                                              !.session_name = writer.op]
              ELSE UNCHANGED <<appends, ret>>
    /\ UNCHANGED <<clock, notified, asked, crashFrame>>

\* the cache store: INSERT OR REPLACE INTO code_analysis
WStoreInsert ==
    /\ writer.pc = "idle"
    /\ writer.begun < MaxWrites
    /\ \E file_path \in Paths, f \in Contents :
        writer' = [writer EXCEPT !.pc = "store_commit", !.begun = @ + 1, !.op = "store",
                     !.txn = [Committed EXCEPT
                         !.code_analysis = InsertOrReplaceAnalysis(code_analysis,
                             NextAnalysisId, file_path, get_file_hash(f),
                             Analyze(file_path, f), clock),
                         !.ca_seq = NextAnalysisId]]
    /\ UNCHANGED <<clock, convVars, achVars, achHist, code_analysis, ca_seq, crashFrame>>

\* the cache store: the commit
WStoreCommit ==
    /\ writer.pc = "store_commit"
    /\ Install(writer.txn)
    /\ writer' = [writer EXCEPT !.pc = "idle", !.txn = <<>>]
    /\ UNCHANGED <<clock, ret, appends, notified, achHist, crashFrame>>

\* the process is killed; a later process starts from the database file
Kill ==
    /\ writer.pc # "idle"
    /\ Install(IF writer.txn = <<>> THEN Committed ELSE AfterKill(Committed, writer.txn))
    /\ writer' = [NoWriter EXCEPT !.begun = writer.begun, !.op = "killed"]
    /\ UNCHANGED <<clock, ret, appends, notified, achHist, crashFrame>>

NextCrash ==
    \/ WSaveInsert
    \/ WSaveSession
    \/ WSaveCommit
    \/ WIncrement
    \/ WIncInsert
    \/ WIncUpdate
    \/ WIncUnlock
    \/ WIncCommit
    \/ WStoreInsert
    \/ WStoreCommit
    \/ Kill

SpecCrash == Init /\ [][NextCrash]_vars

\* the columns of a code_analysis row agree with the analysis in analysis_data
WholeAnalysisRow(r) ==
    /\ Decodable(r.analysis_data)
    /\ r.file_hash # NoHash
    /\ LET a == JsonLoads(r.analysis_data)
       IN  /\ a.file_path = r.file_path
           /\ a.language = r.language
           /\ a.lines_of_code = r.lines_of_code
           /\ a.complexity_score = r.complexity_score

\* C14: whatever statement a write was at when its process was killed, the
\* database file never holds a conversation row without the sessions row of its
\* session, a code_analysis row that is not whole, or an achievement with
\* progress >= target that is not unlocked.
C14_TransactionalWrites ==
    /\ \A c \in conversations : \E x \in sessions : x.name = c.session_name
    /\ \A r \in code_analysis : WholeAnalysisRow(r)
    /\ \A a \in achievements : ~(a.progress >= a.target /\ ~a.unlocked)
    /\ conv_seq >= MaxOf({c.id : c \in conversations})

\* a process was killed inside a transaction after writes of all three kinds
\* had been committed
C14_Witness ==
    /\ writer.op = "killed"
    /\ writer.begun = MaxWrites
    /\ conversations # {}
    /\ \E a \in achievements : a.unlocked
    /\ \E a \in achievements : a.name = "chat_master" /\ a.progress = 1

(***************************************************************************)
(* The analysis cache when the store fails: a row whose analysis_data does *)
(* not decode, and a database file that cannot be read or written.         *)
(***************************************************************************)
\* an analysis_data text that CodeAnalysis(**json.loads(text)) rejects
Corrupt == << <<"garbage", 0>> >>

\* a row of the table is damaged
CorruptRow ==
    /\ \E r \in code_analysis :
        /\ r.analysis_data # Corrupt
        /\ code_analysis' = (code_analysis \ {r}) \cup {[r EXCEPT !.analysis_data = Corrupt]}
        /\ fresh' = [fresh EXCEPT ![r.file_path] = NoAnalysis]
    /\ UNCHANGED <<files, ca_seq, ares, analyses, recomputed, achVars, achHist,
                   storeUnchanged, batch>>

\* the SELECT of the cache lookup raises (lines 238-242 are in no try block):
\* the exception leaves analyze_file_with_progress
AnalyzeReadDown(file_path) ==
    /\ get_file_hash(files[file_path]) # NoHash
    /\ ares' = [NoAnalysisReturn EXCEPT !.path = file_path, !.outcome = "raised at SELECT"]
    /\ UNCHANGED <<code_analysis, ca_seq, recomputed, fresh, achVars, achHist>>

\* the database cannot be written: the INSERT OR REPLACE raises and is
\* swallowed, then the INSERT of increment_achievement raises (line 281 is in
\* no try block) and the exception leaves analyze_file_with_progress
AnalyzeWriteDown(file_path) ==
    LET file_hash == get_file_hash(files[file_path])
        cached == CacheLookup(code_analysis, file_path, file_hash)
    IN  /\ file_hash # NoHash
        /\ \A row \in cached : ~Decodable(row.analysis_data)
        /\ recomputed' = recomputed + 1
        /\ ares' = [NoAnalysisReturn EXCEPT !.path = file_path,
                                            !.outcome = "raised at update_achievements"]
        /\ UNCHANGED <<code_analysis, ca_seq, fresh, achVars, achHist>>

\* analyze_file_with_progress while the database file cannot be read
AnalyzeStoreUnreadable ==
    /\ analyses < MaxAnalyses
    /\ analyses' = analyses + 1
    /\ \E file_path \in Paths : AnalyzeReadDown(file_path)
    /\ UNCHANGED <<files, storeUnchanged, batch>>

\* analyze_file_with_progress while the database file cannot be written
AnalyzeStoreReadOnly ==
    /\ analyses < MaxAnalyses
    /\ analyses' = analyses + 1
    /\ \E file_path \in Paths : AnalyzeWriteDown(file_path)
    /\ UNCHANGED <<files, storeUnchanged, batch>>

NextCacheReadFaults ==
    \/ WriteFile
    \/ AnalyzeFile
    \/ CorruptRow
    \/ AnalyzeStoreUnreadable

SpecCacheReadFaults == Init /\ [][NextCacheReadFaults]_vars

\* the call that has just returned found the cache unusable: its SELECT raised,
\* or the row of the file's path and digest did not decode
CacheReadFailed ==
    \/ ares'.outcome = "raised at SELECT"
    \/ \E r \in CacheLookup(code_analysis, ares'.path, get_file_hash(files[ares'.path])) :
          ~Decodable(r.analysis_data)

\* C15: a call of analyze_file_with_progress on a file that can be hashed whose
\* cache read fails (the SELECT raises, or the stored row does not decode) is
\* a miss: the file is analysed once, that analysis is returned, and no
\* exception reaches the caller.
C15_Step ==
    (analyses' = analyses + 1 /\ get_file_hash(files[ares'.path]) # NoHash
        /\ CacheReadFailed) =>
        /\ ares'.outcome = "miss"
        /\ ares'.analysis = Analyze(ares'.path, files[ares'.path])
        /\ recomputed' = recomputed + 1

C15_ReadFailureIsMiss == [][C15_Step]_vars

NextCacheWriteFaults ==
    \/ WriteFile
    \/ AnalyzeFile
    \/ AnalyzeStoreReadOnly

SpecCacheWriteFaults == Init /\ [][NextCacheWriteFaults]_vars

\* the call that has just returned analysed the file and could not write the
\* result back
WriteBackFailed ==
    /\ recomputed' = recomputed + 1
    /\ ~ares'.stored

\* C16: a call of analyze_file_with_progress whose write-back fails because the
\* database cannot be written still returns the analysis it has just computed,
\* and no exception reaches the caller.
C16_Step ==
    (analyses' = analyses + 1 /\ WriteBackFailed) =>
        /\ ares'.outcome = "miss"
        /\ ares'.analysis = Analyze(ares'.path, files[ares'.path])

C16_WriteFailureSwallowed == [][C16_Step]_vars

(***************************************************************************)
(* A directory analysis: _analyze_directory_with_progress.                 *)
(***************************************************************************)
MaxBatches == 2

\* a Python text that ast.parse rejects
Unparsable == <<"def (", "x = 1">>
BatchFileStates == FileStates \cup {Unparsable}

\* path.rglob("*" + ext) for each extension of the table in turn: the files
\* that exist, those with .py before those with .js
PathOrder == <<"a.py", "b.js">>
ListFiles == SelectSeq(PathOrder, LAMBDA f : files[f] # Missing)

\* the directory is filled before the batches run
BatchWriteFile ==
    /\ batch.pc = "idle"
    /\ \E file_path \in Paths, f \in BatchFileStates :
        /\ files[file_path] # f
        /\ files' = [files EXCEPT ![file_path] = f]
        /\ fresh' = [fresh EXCEPT ![file_path] = NoAnalysis]
    /\ UNCHANGED <<code_analysis, ca_seq, ares, analyses, recomputed, achVars, achHist,
                   storeUnchanged, batch>>

\* all_files is collected; an empty directory ends the batch at once
BatchStart ==
    /\ batch.pc \in {"idle", "done", "interrupted"}
    /\ batch.begun < MaxBatches
    /\ batch' = [pc |-> IF ListFiles = <<>> THEN "done" ELSE "running",
                 begun |-> batch.begun + 1, listed |-> Range(ListFiles),
                 todo |-> ListFiles, analyses |-> <<>>]
    /\ UNCHANGED <<files, code_analysis, ca_seq, ares, analyses, recomputed, fresh,
                   achVars, achHist, storeUnchanged>>

\* one turn of the loop: analyze_file_with_progress, and analyses.append when
\* it returned an analysis
BatchFile ==
    /\ batch.pc = "running"
    /\ batch.todo # <<>>
    /\ analyze_file_with_progress(Head(batch.todo))
    /\ batch' = [batch EXCEPT !.todo = Tail(@),
                     !.analyses = IF ares'.outcome = "None" THEN @
                                  ELSE Append(@, [analysis |-> ares'.analysis,
                                                  outcome |-> ares'.outcome,
                                                  stored |-> ares'.stored])]

\* the loop is over: display_directory_summary(analyses)
BatchEnd ==
    /\ batch.pc = "running"
    /\ batch.todo = <<>>
    /\ batch' = [batch EXCEPT !.pc = "done"]
    /\ UNCHANGED <<files, code_analysis, ca_seq, ares, analyses, recomputed, fresh,
                   achVars, achHist, storeUnchanged>>

\* the operator interrupts the batch between two files
BatchInterrupt ==
    /\ batch.pc = "running"
    /\ batch' = [batch EXCEPT !.pc = "interrupted"]
    /\ UNCHANGED <<files, code_analysis, ca_seq, ares, analyses, recomputed, fresh,
                   achVars, achHist, storeUnchanged>>

\* the operator interrupts the batch inside analyze_file_with_progress of a file
\* that is not in the cache. KeyboardInterrupt is no Exception: nothing swallows
\* it. It arrives before the store has committed (the transaction is rolled
\* back), or after it, when k of the two increment_achievement calls are done.
BatchInterruptInFile ==
    /\ batch.pc = "running"
    /\ batch.todo # <<>>
    /\ analyses < MaxAnalyses
    /\ analyses' = analyses + 1
    /\ LET file_path == Head(batch.todo)
           file_hash == get_file_hash(files[file_path])
           analysis == Analyze(file_path, files[file_path])
       IN  /\ file_hash # NoHash
           /\ \A row \in CacheLookup(code_analysis, file_path, file_hash) :
                 ~Decodable(row.analysis_data)
           /\ \/ UNCHANGED <<code_analysis, ca_seq, recomputed, fresh, achVars, achHist>>
              \/ /\ recomputed' = recomputed + 1
                 /\ code_analysis' = InsertOrReplaceAnalysis(code_analysis, NextAnalysisId,
                                         file_path, file_hash, analysis, clock)
                 /\ ca_seq' = NextAnalysisId
                 /\ fresh' = [fresh EXCEPT ![file_path] = analysis]
                 /\ \E k \in 0..Len(PairsOf("code_analysis")) :
                     LET done == SubSeq(PairsOf("code_analysis"), 1, k)
                         st == IncrementEach([ach |-> achievements, out |-> notified],
                                             done, clock)
                     IN  /\ achievements' = st.ach
                         /\ notified' = st.out
                         /\ calls' = CountCalls(calls, done)
                         /\ asked' = NoteAsked(asked, done)
           /\ ares' = [NoAnalysisReturn EXCEPT !.path = file_path,
                                               !.outcome = "interrupted"]
    /\ batch' = [batch EXCEPT !.pc = "interrupted"]
    /\ UNCHANGED <<files, storeUnchanged>>

NextBatch ==
    \/ BatchWriteFile
    \/ BatchStart
    \/ BatchFile
    \/ BatchEnd
    \/ BatchInterrupt
    \/ BatchInterruptInFile

SpecBatch == Init /\ [][NextBatch]_vars

\* the analyses of file f in the summary of the batch that ends
ReportedFor(f) ==
    {batch.analyses[i].analysis : i \in {j \in 1..Len(batch.analyses) :
                                         batch.analyses[j].analysis.file_path = f}}

\* C17: when a directory batch ends, every file it listed is in its summary; a
\* file that cannot be read is there with a degraded analysis whose issue
\* records the read error, and a Python file that does not parse with one
\* whose issue records the syntax error.
C17_Step ==
    (batch.pc = "running" /\ batch'.pc = "done") =>
        \A f \in batch.listed :
            /\ ReportedFor(f) # {}
            /\ files[f] = Unreadable =>
                  \E a \in ReportedFor(f) : a.issues = <<"File read error">>
            /\ (files[f] = Unparsable /\ LanguageOf(f) = "python") =>
                  \E a \in ReportedFor(f) : a.issues = <<"Syntax Error">>

C17_FileErrorsDegrade == [][C17_Step]_vars

(***************************************************************************)
(* analyze_python_file on texts of a few lines.                            *)
(***************************************************************************)
MaxLines == 3

Lines == {"", "# TODO", "x = 1", "def f(): pass", "class C: pass", "import os", "def ("}
Texts == UNION {[1..n -> Lines] : n \in 0..MaxLines}

\* a.py is written and analysed
ParsePython ==
    /\ files["a.py"] = Missing
    /\ \E content \in Texts :
        /\ files' = [files EXCEPT !["a.py"] = content]
        /\ ares' = [path |-> "a.py", outcome |-> "analysed",
                    analysis |-> analyze_python_file("a.py", content), stored |-> FALSE]
    /\ UNCHANGED <<code_analysis, ca_seq, analyses, recomputed, fresh, achVars, achHist,
                   storeUnchanged, batch>>

NextParse == ParsePython

SpecParse == Init /\ [][NextParse]_vars

\* C18: the analysis of a Python text that does not parse has no functions,
\* classes or imports, complexity_score 0, lines_of_code equal to the number
\* of lines of the text, and one issue, the syntax error.
C18_DegradedAnalysis ==
    (ares.outcome = "analysed" /\ \E i \in 1..Len(files["a.py"]) : IsInvalid(files["a.py"][i])) =>
        /\ ares.analysis.functions = <<>>
        /\ ares.analysis.classes = <<>>
        /\ ares.analysis.imports = <<>>
        /\ ares.analysis.complexity_score = Quotient(0, 1)
        /\ ares.analysis.lines_of_code = Len(files["a.py"])
        /\ ares.analysis.issues = <<"Syntax Error">>

\* a text with a function, a comment and a line that does not parse
C18_Witness ==
    /\ ares.outcome = "analysed"
    /\ files["a.py"] = <<"def f(): pass", "# TODO", "def (">>
    /\ ares.analysis.lines_of_code = 3
    /\ ares.analysis.functions = <<>>

MaxAppends == 11
MaxActions == 1

\* update_achievements calls made otherwise than by save_conversation
ActionsGiven ==
    (calls["chat_master"] - appends) + calls["code_analyzer"] + calls["git_ninja"]
        + calls["knowledge_seeker"]

RecordAction ==
    /\ ActionsGiven < MaxActions
    /\ \E action_type \in GivenActionTypes :
        LET st == update_achievements([ach |-> achievements, out |-> notified],
                                      action_type, clock)
        IN  /\ achievements' = st.ach
            /\ notified' = st.out
            /\ calls' = CountCalls(calls, PairsOf(action_type))
            /\ asked' = NoteAsked(asked, PairsOf(action_type))
            /\ ret' = [NoReturn EXCEPT !.op = "update_achievements",
                                       !.action_type = action_type]
    /\ UNCHANGED <<clock, conversations, conv_seq, sessions, appends, procVars,
                   cacheVars, analyzerVars, cliVars>>

\* one caller appending to one session
AppendOne ==
    /\ appends < MaxAppends
    /\ save_conversation("work", <<"a">>, <<"c">>, "", DEFAULT_MODEL)
    /\ UNCHANGED <<ai, cli>>

NextActions ==
    \/ RecordAction
    \/ AppendOne

SpecActions == Init /\ [][NextActions]_vars

\* the table as the claim gives it
TablePairs(action_type) ==
    CASE action_type = "conversation" ->
            {<<"chat_master", 100>>, <<"session_expert", 10>>}
      [] action_type = "code_analysis" ->
            {<<"code_analyzer", 50>>, <<"quality_guru", 25>>}
      [] action_type = "git_usage" ->
            {<<"git_ninja", 25>>, <<"commit_master", 50>>}
      [] action_type = "learning" ->
            {<<"knowledge_seeker", 20>>, <<"concept_master", 100>>}
      [] OTHER -> {}

ProgressOf(tbl, n) ==
    IF \E r \in tbl : r.name = n
    THEN (CHOOSE r \in tbl : r.name = n).progress
    ELSE 0

\* one increment_achievement(n, T) and no more happened to the row of n
IncrementedOnce(n, T) ==
    /\ Cardinality({r \in achievements' : r.name = n}) = 1
    /\ \A r \in achievements' : r.name = n =>
          /\ r.target = (IF AchRows(n) = {} THEN T
                         ELSE (CHOOSE q \in AchRows(n) : TRUE).target)
          /\ r.progress = (IF \E q \in AchRows(n) : q.unlocked
                           THEN ProgressOf(achievements, n)
                           ELSE ProgressOf(achievements, n) + 1)

TableStep(action_type) ==
    /\ \A p \in TablePairs(action_type) : IncrementedOnce(p[1], p[2])
    /\ \A n \in AchievementNames :
          (\A p \in TablePairs(action_type) : p[1] # n) =>
              {r \in achievements' : r.name = n} = AchRows(n)

C20_Step ==
    /\ ret'.op = "update_achievements" => TableStep(ret'.action_type)
    /\ appends' = appends + 1 => TableStep("conversation")

C20_Appends ==
    calls["chat_master"] = appends =>
        /\ ProgressOf(achievements, "chat_master") = Min(appends, 100)
        /\ ProgressOf(achievements, "session_expert") = Min(appends, 10)

\* C20: update_achievements(action) increments once each achievement the table
\* gives for the action (conversation: chat_master/100, session_expert/10;
\* code_analysis: code_analyzer/50, quality_guru/25; git_usage: git_ninja/25,
\* commit_master/50; learning: knowledge_seeker/20, concept_master/100) and
\* changes nothing for any other action; each save_conversation does the
\* increments of 'conversation' once, so after k appends of a single caller
\* chat_master.progress = min(k, 100) and session_expert.progress = min(k, 10).
C20_ActionTable == [][C20_Step]_vars /\ []C20_Appends

C20_Witness ==
    /\ appends = 11
    /\ calls["chat_master"] = appends
    /\ ProgressOf(achievements, "chat_master") = 11
    /\ ProgressOf(achievements, "session_expert") = 10
    /\ \E r \in AchRows("session_expert") : r.unlocked
    /\ ret.op = "update_achievements"
    /\ ret.action_type = "voice"

(***************************************************************************)
(* The analysis of one text, by the language of its path.                  *)
(***************************************************************************)
ScanLines == {"eval(x)", "EXEC (c)", "el.innerHTML = eval(s)", "$_GET['q']",
              "evaluate(x)", "pickle.load(f)", "function g() {}"}
ScanTexts == UNION {[1..n -> ScanLines] : n \in 0..MaxLines}
GivenPaths == {"a.py", "b.js", "c.php", "d.txt"}

MaxBlockLines == 6
\* Python lines with their indentation
BlockLines == {"def f():", "    def g():", "    if x: pass", "        if y: pass",
               "    for i in x: pass", "if x: pass"}
BlockTexts == UNION {[1..n -> BlockLines] : n \in 0..MaxBlockLines}
GivenTexts(file_path) ==
    IF file_path = "a.py" THEN ScanTexts \cup BlockTexts ELSE ScanTexts

\* language = ...get(ext, 'unknown'), then the analysis of the text read
AnalyzeText ==
    /\ given = NoText
    /\ \E file_path \in GivenPaths :
       \E content \in GivenTexts(file_path) :
        /\ given' = [file_path |-> file_path, content |-> content]
        /\ ares' = [path |-> file_path, outcome |-> "analysed",
                    analysis |-> Analyze(file_path, content), stored |-> FALSE]
    /\ UNCHANGED <<files, code_analysis, ca_seq, analyses, recomputed, fresh, achVars,
                   achHist, clock, convVars, procVars, analyzerVars, ai, writer, batch,
                   cli>>

NextScan == AnalyzeText

SpecScan == Init /\ [][NextScan]_vars

\* the pattern table of a language, if it has one
TableOf(language) ==
    CASE language = "python" -> security_patterns
      [] language = "javascript" -> js_security_patterns
      [] language = "php" -> php_security_patterns
      [] OTHER -> <<>>

\* the warnings are those of the patterns found in the text, once each, in
\* the order of the table
OneWarningPerPattern(tbl, content, warnings) ==
    LET hit == {i \in 1..Len(tbl) : Search(tbl[i][1], content)}
        nth(k) == CHOOSE i \in hit : Cardinality({j \in hit : j <= i}) = k
    IN  /\ Len(warnings) = Cardinality(hit)
        /\ \A k \in 1..Len(warnings) : warnings[k] = tbl[nth(k)][2]

RECURSIVE SumOverFunctions(_, _)
SumOverFunctions(content, ds) ==
    IF ds = {} THEN 0
    ELSE LET d == CHOOSE x \in ds : TRUE
         IN  Cardinality({i \in 1..Len(content) :
                             IsDecisionPoint(content[i]) /\ Inside(content, d, i)})
                 + SumOverFunctions(content, ds \ {d})

\* two functions, one holding three ifs, the other one loop
TwoFunctions == <<"def f():", "    if x: pass", "    if x: pass", "    if x: pass",
                  "def f():", "    for i in x: pass">>

\* what the formula has to say of an analysis whose decision points are total
ComplexityFormula(total) ==
    LET a == ares.analysis
    IN  /\ a.complexity_score[1] >= 0
        /\ a.complexity_score[2] >= 1
        /\ (a.language = "python" /\ Parses(given.content)) =>
              a.complexity_score = Quotient(total, Max(Len(a.functions), 1))
        /\ a.functions = <<>> => a.complexity_score = Quotient(0, 1)
        /\ a.language # "python" => a.complexity_score = Quotient(0, 1)
        /\ (a.language = "python" /\ given.content = TwoFunctions) =>
              a.complexity_score = Quotient(2, 1)

\* the claim as given: each construct inside a function definition counts once
C22_ComplexityCountedOnce ==
    (ares.outcome = "analysed" /\ given # NoText) =>
        ComplexityFormula(ComplexityFlat(given.content))

\* C22: complexity_score = totalDecisionPoints / max(number of functions, 1)
\* and is >= 0, where totalDecisionPoints adds up, over the function
\* definitions found, the if/for/while/try/with constructs in that function's
\* subtree (a construct inside a nested function counts for each function around
\* it); the score is 0 when no function is found and for every language other
\* than Python, and 2.0 for two functions holding 3 ifs and 1 loop.
C22_ComplexityFormula ==
    (ares.outcome = "analysed" /\ given # NoText) =>
        ComplexityFormula(SumOverFunctions(given.content, DefLines(given.content)))

C22_Witness ==
    /\ ares.outcome = "analysed"
    /\ given = [file_path |-> "a.py", content |-> TwoFunctions]
    /\ ares.analysis.functions = <<"f", "f">>
    /\ ares.analysis.complexity_score = <<2, 1>>

\* C23: a file whose extension is not in the extension table is classified
\* 'unknown'; its analysis computes only lines_of_code (no functions, classes,
\* imports or security issues, complexity 0) and carries exactly one issue,
\* the advisory that only limited analysis is available.
C23_UnknownFallback ==
    (ares.outcome = "analysed" /\ given # NoText
        /\ Suffix(given.file_path) \notin DOMAIN SUPPORTED_EXTENSIONS) =>
        LET a == ares.analysis
        IN  /\ a.language = "unknown"
            /\ a.functions = <<>> /\ a.classes = <<>> /\ a.imports = <<>>
            /\ a.security_issues = <<>>
            /\ a.complexity_score = Quotient(0, 1)
            /\ a.issues = <<"Unknown file type - limited analysis available">>

(***************************************************************************)
(* The command line: sarek [--session S] command [args...]                 *)
(* A word of the command line is the tuple of its pieces, "git-status" is   *)
(* <<"git", "-", "status">> and 'git help' is <<"git", " ", "help">>.        *)
(***************************************************************************)
MaxCommands == 2

CommandLists ==
    { << <<"git", "-", "status">> >>,
      << <<"git", "-", "frobnicate">> >>,
      << <<"Git", " ", "Help">> >>,
      << <<"git", " ", "help">> >>,
      << <<"git">>, <<"help">> >>,
      << <<"explain", " ", "this", " ", "error">> >>,
      << <<"explain">>, <<"git">> >> }

\* str.lower()
LowerPiece(piece) == CASE piece = "Git" -> "git" [] piece = "Help" -> "help"
                       [] OTHER -> piece
LowerWord(word) == [i \in 1..Len(word) |-> LowerPiece(word[i])]

\* " ".join(words)
RECURSIVE Join(_)
Join(words) ==
    IF words = <<>> THEN <<>>
    ELSE IF Len(words) = 1 THEN Head(words)
    ELSE Head(words) \o <<" ">> \o Join(Tail(words))

\* command.startswith("git")
StartsWithGit(command) == command # <<>> /\ Head(command) = "git"

\* the branch of _process_command taken by the commands of the model
HandlerOf(command) ==
    IF command = <<"git", "-", "status">> THEN "git-status"
    ELSE IF StartsWithGit(command) THEN "_handle_git_commands"
    ELSE "_process_query"

\* _run_command_mode and _process_command: git-status shows the status, any
\* other command that starts with "git" goes to _handle_git_commands, which
\* knows git-commit-msg, git-explain and git-review and reports any other as
\* an unknown git command; what no branch takes is an AI query
run_command_mode(command_list, session_name) ==
    LET command == LowerWord(command_list[1])
        command_args == Tail(command_list)
        handler == HandlerOf(command)
    IN  /\ cli' = [runs |-> cli.runs + 1, command_list |-> command_list,
                   handler |-> handler]
        /\ IF handler = "_process_query"
           THEN process_query(Join(<<command>> \o command_args), session_name)
           ELSE UNCHANGED <<clock, convVars, achVars, achHist, procVars, cacheVars,
                            analyzerVars, ai, writer, batch, given>>

RunCommand ==
    /\ cli.runs < MaxCommands
    /\ \E command_list \in CommandLists, s \in SessionNames :
        run_command_mode(command_list, s)

NextCli ==
    \/ Tick
    \/ RunCommand

SpecCli == Init /\ [][NextCli]_vars

\* the command line is written with spaces: several words, or a quoted word
\* with a space in it
WrittenWithSpaces(command_list) ==
    \/ Len(command_list) > 1
    \/ \E i \in 1..Len(command_list[1]) : command_list[1][i] = " "

\* git-status, git-commit-msg, git-explain, git-review
HyphenatedGitCommands ==
    {<<"git", "-", "status">>, <<"git", "-", "commit", "-", "msg">>,
     <<"git", "-", "explain">>, <<"git", "-", "review">>}

C24_Step ==
    cli'.runs = cli.runs + 1 =>
        LET command_list == cli'.command_list
        IN  /\ WrittenWithSpaces(command_list) =>
                  /\ cli'.handler = "_process_query"
                  /\ appends' = appends + 1
                  /\ Cardinality(conversations' \ conversations) = 1
            /\ (Len(command_list) = 1
                   /\ LowerWord(command_list[1]) \in HyphenatedGitCommands) =>
                  cli'.handler \in {"git-status", "_handle_git_commands"}

\* C24: a command line written with spaces that is not one of the hyphenated
\* commands (such as sarek 'git help') is handled by _process_query and
\* recorded as a conversation; the hyphenated forms git-status,
\* git-commit-msg, git-explain and git-review are handled as git commands.
C24_FreeTextIsQuery == [][C24_Step]_vars

\* the bytes a digest was computed from
BytesOf(file_hash) == file_hash[2]

\* C25: in every reachable state, also when another process rewrites the file
\* between the digest computation and the content read of one
\* analyze_file_with_progress call, each code_analysis row (path, file_hash,
\* analysis) holds the analysis of the bytes whose digest is file_hash, so a
\* hit, which requires the digest of the current bytes, returns their analysis.
C25_RowMatchesDigest ==
    \A r \in code_analysis :
        /\ Decodable(r.analysis_data)
        /\ JsonLoads(r.analysis_data) = Analyze(r.file_path, BytesOf(r.file_hash))

C26_Step ==
    /\ \A s \in sessions :
          \E t \in sessions' :
              /\ t.name = s.name
              /\ t.created_at = s.created_at
              /\ t.description = s.description
              /\ t.mood = s.mood
    /\ \A t \in sessions' : t.created_at <= t.last_used

\* C26: once a sessions row exists for a name, later save_conversation calls
\* for that name change only last_used: created_at, description and mood keep
\* their values, so created_at stays the time of the session's first append
\* and created_at <= last_used.
C26_CreatedAtStable == [][C26_Step]_vars

RECURSIVE SumOfCounts(_)
SumOfCounts(entries) ==
    IF entries = <<>> THEN 0
    ELSE Head(entries).message_count + SumOfCounts(Tail(entries))

\* C27: in every reachable state each conversation row's session_name has a
\* sessions row, each sessions row has at least one conversation, the
\* message_count values get_sessions reports are at least 1 and sum to the
\* number of conversation rows, and a session's last_used is not earlier than
\* the timestamp of any of its conversations.
C27_SessionsConsistent ==
    /\ \A c \in conversations : \E s \in sessions : s.name = c.session_name
    /\ \A s \in sessions :
          /\ SessionRows(s.name) # {}
          /\ \A c \in SessionRows(s.name) : c.timestamp <= s.last_used
    /\ ret.op = "get_sessions" =>
          /\ \A i \in 1..Len(ret.rows) : ret.rows[i].message_count >= 1
          /\ SumOfCounts(ret.rows) = Cardinality(conversations)

\* two sessions listed, with two conversations and one
C27_Witness ==
    /\ ret.op = "get_sessions"
    /\ Len(ret.rows) = 2
    /\ {ret.rows[1].message_count, ret.rows[2].message_count} = {1, 2}
    /\ \E s \in sessions : \E c \in SessionRows(s.name) : c.timestamp < s.last_used

\* C28: when several conversations of one session carry the same timestamp,
\* get_recent_context(session, limit) still returns the limit conversations
\* with the greatest ids, in increasing id order.
C28_TiesInInsertionOrder ==
    (/\ ret.op = "get_recent_context"
     /\ ret.limit >= 0
     /\ \E a, b \in SessionRows(ret.session_name) : a.id # b.id /\ a.timestamp = b.timestamp) =>
        LET ids == {r.id : r \in SessionRows(ret.session_name)}
            k == Min(ret.limit, Cardinality(ids))
            latest == {i \in ids : Cardinality({j \in ids : j > i}) < k}
        IN  /\ Len(ret.rows) = k
            /\ {ret.rows[i].id : i \in 1..Len(ret.rows)} = latest
            /\ \A i, j \in 1..Len(ret.rows) : i < j => ret.rows[i].id < ret.rows[j].id

C29_Bounded ==
    \A r \in achievements :
        r.target >= 1 =>
            /\ 0 <= r.progress
            /\ r.progress <= r.target
            /\ r.unlocked = (r.progress = r.target)

C29_TargetStep ==
    /\ \A r \in achievements :
          \E t \in achievements' : t.name = r.name /\ t.target = r.target
    /\ \A t \in achievements' :
          AchRows(t.name) = {} => asked'[t.name] = {t.target}

\* C29: in every reachable state every achievement row created by
\* increment_achievement with a target >= 1 has 0 <= progress <= target and is
\* unlocked exactly when progress = target; the stored target is the one given
\* by the call that created the row and never changes.
C29_ProgressBounded == []C29_Bounded /\ [][C29_TargetStep]_vars

\* created with target 2, later asked with target 1, unlocked at progress 2
C29_Witness ==
    \E r \in achievements :
        /\ r.target = 2
        /\ asked[r.name] = {1, 2}
        /\ r.progress = 2
        /\ r.unlocked
        /\ calls[r.name] >= 3

C30_Step ==
    analyses' = analyses + 1 =>
        /\ ares'.outcome \in {"hit", "None", "miss"}
        /\ ares'.outcome \in {"hit", "None"} =>
              /\ code_analysis' = code_analysis
              /\ achievements' = achievements
              /\ notified' = notified
              /\ recomputed' = recomputed
        /\ ares'.outcome = "miss" =>
              /\ recomputed' = recomputed + 1
              /\ \A pair \in TablePairs("code_analysis") :
                    IncrementedOnce(pair[1], pair[2])
              /\ \A r \in achievements' :
                    (\A pair \in TablePairs("code_analysis") : r.name # pair[1])
                        => r \in achievements

\* C30: an analyze_file_with_progress call served from the cache, and a call
\* that returns None (no such path, or the file cannot be hashed), leave the
\* code_analysis table and every achievement's progress as they were; only a
\* call that recomputes the analysis performs update_achievements
\* ('code_analysis'), once.
C30_HitChangesNothing == [][C30_Step]_vars

\* the third call or later is a hit while another path has no readable file:
\* one recomputation and one update so far
C30_Witness ==
    /\ ares.outcome = "hit"
    /\ analyses >= 3
    /\ recomputed = 1
    /\ code_analysis # {}
    /\ ProgressOf(achievements, "code_analyzer") = 1
    /\ ProgressOf(achievements, "quality_guru") = 1
    /\ \E file_path \in Paths : files[file_path] \in {Missing, Unreadable}
====
